---- MODULE Spec2Model ----
(***************************************************************************)
(* Health Signal & Safety Orchestration Pipeline (cip personal health).    *)
(*                                                                         *)
(* Scores are exact rationals held as integers in units of 1/Scale.        *)
(* Python's None is the empty sequence <<>>, a present scalar v is <<v>>.  *)
(* A dict is a function over the set of its keys.                          *)
(***************************************************************************)
EXTENDS Integers, Sequences, FiniteSets, TLC

\* One unit of score is 1/Scale; Scale is a multiple of every divisor the
\* translator uses (25, 40, 20, 60, 8, 100, 15, 3000) and of 10^4.
Scale == 10000 * 120

None == <<>>
Some(v) == <<v>>
IsNone(o) == o = <<>>
Val(o) == o[1]

Max2(a, b) == IF a >= b THEN a ELSE b
Min2(a, b) == IF a <= b THEN a ELSE b
Abs(a) == IF a < 0 THEN 0 - a ELSE a

\* dict.get(k) -> value or None, on a dict of optional scalars
Get(d, k) == IF k \in DOMAIN d THEN d[k] ELSE None

---------------------------------------------------------------------------
(* signal_models.py *)

LAYER_NAMES ==
    <<"vital_stability", "metabolic_balance", "activity_recovery", "preventive_readiness">>

PROFILE_NAME == "consumer_health"

\* Variant of FALLBACK_NO_DATA: a fallback constant under the gate's threshold
FALLBACK_NO_DATA_Low == (2 * Scale) \div 10

FALLBACK_NO_DATA == (3 * Scale) \div 10
FALLBACK_PARTIAL_DATA == (5 * Scale) \div 10
FALLBACK_NO_LABS == (4 * Scale) \div 10
FALLBACK_GOOD_DEFAULT == (7 * Scale) \div 10

---------------------------------------------------------------------------
(* signal_translator.py *)

\* Variant of _clamp: the value returned as computed
ClampNothing(value) == value

_clamp(value) == Max2(0, Min2(Scale, value))

\* _num(val, default): None -> default
_num(o, default) == IF IsNone(o) THEN default ELSE Val(o)

\* A section that the provider returned empty is the empty dict, [x \in {} |-> x].
EmptyDict == [x \in {} |-> None]
IsEmptyDict(d) == DOMAIN d = {}

\* vitals_data keys (flattened): rhr, rhr_trend, systolic, diastolic, hrv, spo2
compute_vital_stability(vitals_data) ==
    IF IsEmptyDict(vitals_data)
    THEN [value |-> FALLBACK_NO_DATA, details |-> [fallback |-> "no_vitals_data"]]
    ELSE
    LET rhr == _num(Get(vitals_data, "rhr"), 70)
        rhr_trend == _num(Get(vitals_data, "rhr_trend"), 0)
        hr0 == _clamp(Scale - (Abs(rhr - 65) * Scale) \div 25)
        hr_signal == IF rhr_trend < 0 THEN _clamp(hr0 + Scale \div 20)
                     ELSE IF rhr_trend > 3 THEN _clamp(hr0 - Scale \div 20)
                     ELSE hr0
        systolic == _num(Get(vitals_data, "systolic"), 120)
        diastolic == _num(Get(vitals_data, "diastolic"), 80)
        bp_penalty == ((Max2(0, systolic - 120) * Scale) \div 40
                       + (Max2(0, diastolic - 80) * Scale) \div 20) \div 2
        bp_signal == _clamp(Scale - bp_penalty)
        hrv_ms == _num(Get(vitals_data, "hrv"), 30)
        hrv_signal == _clamp((hrv_ms * Scale) \div 60)
        avg_spo2 == _num(Get(vitals_data, "spo2"), 97)
        spo2_signal == _clamp(((avg_spo2 - 90) * Scale) \div 8)
        signal == (30 * hr_signal + 35 * bp_signal + 20 * hrv_signal + 15 * spo2_signal) \div 100
    IN [value |-> _clamp(signal),
        details |-> [hr_signal |-> hr_signal, bp_signal |-> bp_signal,
                     hrv_signal |-> hrv_signal, spo2_signal |-> spo2_signal]]

\* lab_results: a dict test name -> value (the lab_map the code builds); hba1c in
\* tenths of a percent. biometrics keys: bmi, bmi_trend.
compute_metabolic_balance(lab_results, biometrics) ==
    IF IsEmptyDict(lab_results) /\ IsEmptyDict(biometrics)
    THEN [value |-> FALLBACK_NO_LABS, details |-> [fallback |-> "no_labs_or_biometrics"]]
    ELSE
    LET has(n) == n \in DOMAIN lab_results
        glucose_signal == _clamp(Scale - (Max2(0, lab_results["fasting glucose"] - 85) * Scale) \div 40)
        hba1c_signal == _clamp(Scale - (Max2(0, lab_results["hba1c"] - 50) * Scale) \div 15)
        glucose_composite ==
            IF has("fasting glucose") /\ has("hba1c") THEN (glucose_signal + hba1c_signal) \div 2
            ELSE IF has("fasting glucose") THEN glucose_signal
            ELSE IF has("hba1c") THEN hba1c_signal
            ELSE FALLBACK_NO_LABS
        ldl_signal == IF has("ldl cholesterol")
                      THEN _clamp(Scale - (Max2(0, lab_results["ldl cholesterol"] - 70) * Scale) \div 100)
                      ELSE Scale \div 2
        hdl_signal == IF has("hdl cholesterol")
                      THEN _clamp(((lab_results["hdl cholesterol"] - 30) * Scale) \div 40)
                      ELSE Scale \div 2
        chol_signal == IF has("ldl cholesterol") \/ has("hdl cholesterol")
                       THEN (6 * ldl_signal + 4 * hdl_signal) \div 10
                       ELSE FALLBACK_NO_LABS
        bmi == _num(Get(biometrics, "bmi"), 0)
        bmi_trend == _num(Get(biometrics, "bmi_trend"), 0)
        bmi0 == _clamp(Scale - (Max2(0, Abs(bmi - 22) - 3) * Scale) \div 8)
        bmi_signal == IF ~IsEmptyDict(biometrics) /\ bmi > 0
                      THEN (IF bmi_trend < 0 THEN _clamp(bmi0 + Scale \div 20) ELSE bmi0)
                      ELSE FALLBACK_PARTIAL_DATA
        trig_signal == IF has("triglycerides")
                       THEN _clamp(Scale - (Max2(0, lab_results["triglycerides"] - 100) * Scale) \div 100)
                       ELSE FALLBACK_NO_LABS
        \* total_weight = 0.30 + 0.35 + 0.20 + 0.15: all four sub-signals are always appended
        signal == (30 * glucose_composite + 35 * chol_signal + 20 * bmi_signal + 15 * trig_signal) \div 100
    IN [value |-> _clamp(signal),
        details |-> [glucose_composite |-> glucose_composite, cholesterol_composite |-> chol_signal]]

\* activity_data keys (flattened): sessions, consistency, duration (thousandths of
\* an hour), quality, recovery, strain_high (strain_balance == "high")
compute_activity_recovery(activity_data) ==
    IF IsEmptyDict(activity_data)
    THEN [value |-> FALLBACK_NO_DATA, details |-> [fallback |-> "no_activity_data"]]
    ELSE
    LET sessions == _num(Get(activity_data, "sessions"), 0)
        consistency == _num(Get(activity_data, "consistency"), 50)
        freq_signal == _clamp((sessions * Scale) \div 4)
        consistency_signal == (consistency * Scale) \div 100
        exercise_signal == (6 * freq_signal + 4 * consistency_signal) \div 10
        duration == _num(Get(activity_data, "duration"), 7000)
        quality == _num(Get(activity_data, "quality"), 50)
        duration_signal == _clamp(Scale - (Abs(duration - 8000) * (Scale \div 1000)) \div 3)
        quality_signal == (quality * Scale) \div 100
        sleep_signal == (duration_signal + quality_signal) \div 2
        recovery_score == _num(Get(activity_data, "recovery"), 50)
        recovery0 == (recovery_score * Scale) \div 100
        recovery_signal == IF Get(activity_data, "strain_high") = Some(TRUE)
                           THEN _clamp(recovery0 - Scale \div 10) ELSE recovery0
        signal == (35 * exercise_signal + 35 * sleep_signal + 30 * recovery_signal) \div 100
    IN [value |-> _clamp(signal),
        details |-> [exercise_signal |-> exercise_signal, sleep_signal |-> sleep_signal,
                     recovery_signal |-> recovery_signal]]

\* Number of entries of a status sequence that are "current"
RECURSIVE CountCurrent(_)
CountCurrent(s) ==
    IF s = <<>> THEN 0
    ELSE (IF Head(s) = "current" THEN 1 ELSE 0) + CountCurrent(Tail(s))

\* preventive_care keys: screenings, vaccinations (sequences of statuses),
\* active_prescriptions, adherence
compute_preventive_readiness(preventive_care) ==
    IF IsEmptyDict(preventive_care)
    THEN [value |-> FALLBACK_PARTIAL_DATA, details |-> [fallback |-> "no_preventive_data"]]
    ELSE
    LET frac(k) == IF k \in DOMAIN preventive_care /\ Len(preventive_care[k]) > 0
                   THEN (CountCurrent(preventive_care[k]) * Scale) \div Len(preventive_care[k])
                   ELSE FALLBACK_PARTIAL_DATA
        screening_signal == frac("screenings")
        vaxx_signal == frac("vaccinations")
        active_rx == _num(Get(preventive_care, "active_prescriptions"), 0)
        adherence == _num(Get(preventive_care, "adherence"), 50)
        med_signal == IF active_rx > 0 THEN (adherence * Scale) \div 100 ELSE FALLBACK_GOOD_DEFAULT
        signal == (40 * screening_signal + 30 * vaxx_signal + 30 * med_signal) \div 100
    IN [value |-> _clamp(signal),
        details |-> [screening_signal |-> screening_signal, medication_signal |-> med_signal]]

\* HealthSignals: layer values in LAYER_NAMES order (as_layer_values) + details by layer
translate_health_to_mantic(b) ==
    LET vital == compute_vital_stability(b.vitals)
        metabolic == compute_metabolic_balance(b.labs, b.biometrics)
        activity == compute_activity_recovery(b.activity)
        preventive == compute_preventive_readiness(b.preventive)
    IN [layer_values |-> <<vital.value, metabolic.value, activity.value, preventive.value>>,
        details |-> [vital_stability |-> vital.details,
                     metabolic_balance |-> metabolic.details,
                     activity_recovery |-> activity.details,
                     preventive_readiness |-> preventive.details]]

---------------------------------------------------------------------------
(* personal_health_signals.py: validation and deterministic helpers *)

\* Variant of _validate_privacy_mode: an unknown value quietly taken as strict
ValidateLenient(value) ==
    IF value \in {"standard", "explicit"} THEN [ok |-> TRUE, mode |-> value]
    ELSE [ok |-> TRUE, mode |-> "strict"]

\* privacy_mode strings; Python's None is the string "None" here.
\* Result: [ok |-> TRUE, mode |-> m] or [ok |-> FALSE] (ValueError)
_validate_privacy_mode(value) ==
    IF value \in {"None", ""} THEN [ok |-> TRUE, mode |-> "strict"]
    ELSE IF value \notin {"strict", "standard", "explicit"} THEN [ok |-> FALSE, mode |-> ""]
    ELSE [ok |-> TRUE, mode |-> value]

\* effective_store_mode = store_mode if store_mode in ("encrypted", "none") else "encrypted"
EffectiveStoreMode(store_mode) ==
    IF store_mode \in {"encrypted", "none"} THEN store_mode ELSE "encrypted"

\* Variant of EffectiveIncludeRaw: the caller's flag taken as given
IncludeRawAsGiven(effective_privacy_mode, include_mantic_raw) == include_mantic_raw

\* if effective_privacy_mode == "strict": include_mantic_raw = False
EffectiveIncludeRaw(effective_privacy_mode, include_mantic_raw) ==
    IF effective_privacy_mode = "strict" THEN FALSE ELSE include_mantic_raw

\* m_score: None or Some(score in units of 1/Scale)
_friction_level_from_score(m_score) ==
    IF IsNone(m_score) THEN "moderate"
    ELSE IF Val(m_score) < (4 * Scale) \div 10 THEN "low"
    ELSE IF Val(m_score) < (7 * Scale) \div 10 THEN "moderate"
    ELSE "high"

LowSignalThreshold == (3 * Scale) \div 10
SystolicLimit == 180

\* Variant of _detect_escalation_triggers: the systolic limit taken inclusively
DetectTriggersInclusive(layer_values, vitals_data) ==
    LET all_low == Len(layer_values) = 4
                   /\ \A i \in 1..Len(layer_values) : layer_values[i] < LowSignalThreshold
        systolic == Get(vitals_data, "systolic")
        high_bp == ~IsNone(systolic) /\ Val(systolic) >= SystolicLimit
    IN (IF all_low THEN <<"all_signals_below_0.3">> ELSE <<>>)
       \o (IF high_bp THEN <<"systolic_over_180">> ELSE <<>>)

\* The gate reads the four layer values and the raw vitals, nothing else.
_detect_escalation_triggers(layer_values, vitals_data) ==
    LET all_low == Len(layer_values) = 4
                   /\ \A i \in 1..Len(layer_values) : layer_values[i] < LowSignalThreshold
        systolic == Get(vitals_data, "systolic")
        high_bp == ~IsNone(systolic) /\ Val(systolic) > SystolicLimit
    IN (IF all_low THEN <<"all_signals_below_0.3">> ELSE <<>>)
       \o (IF high_bp THEN <<"systolic_over_180">> ELSE <<>>)

\* round(value, ndigits) on a value in units of 1/Scale; unit = Scale / 10^ndigits.
\* Ties go to the even multiple, as Python's round does.
RoundTo(v, unit) ==
    LET q == v \div unit
        r == v % unit
    IN IF 2 * r > unit \/ (2 * r = unit /\ q % 2 = 1) THEN (q + 1) * unit ELSE q * unit

Round4(v) == RoundTo(v, Scale \div 10000)
Round2(v) == RoundTo(v, Scale \div 100)

\* signal_snapshot = {name: round(value, 4) for name, value in zip(LAYER_NAMES, layer_values)}
SignalSnapshot(layer_values) ==
    [n \in {LAYER_NAMES[i] : i \in 1..Min2(4, Len(layer_values))} |->
        Round4(layer_values[CHOOSE i \in 1..4 : LAYER_NAMES[i] = n])]

\* Deterministic escalation text: its variable parts
_render_escalation_response(triggers, signals) ==
    [kind |-> "escalation", triggers |-> triggers, signals |-> signals,
     disclaimer |-> TRUE]

SeqMin(s) == CHOOSE v \in {s[i] : i \in 1..Len(s)} : \A j \in 1..Len(s) : v <= s[j]
SeqMax(s) == CHOOSE v \in {s[i] : i \in 1..Len(s)} : \A j \in 1..Len(s) : v >= s[j]
\* list.index(x): first position holding x
IndexOf(s, x) == CHOOSE i \in 1..Len(s) : s[i] = x /\ \A j \in 1..(i - 1) : s[j] # x

_DETECTION_THRESHOLD_FALLBACK == (42 * Scale) \div 100

\* The local summary with the window requiring every score above the threshold
LocalSummaryStrictThreshold(layer_values) ==
    IF layer_values = <<>>
    THEN [friction_level |-> "moderate", emergence_window |-> FALSE, limiting_factor |-> None,
          dominant_layer |-> None, coherence |-> None, note |-> "mantic_unavailable"]
    ELSE
    LET lo == SeqMin(layer_values)
        hi == SeqMax(layer_values)
        signal_range == hi - lo
        coherence == Max2(0, Min2(Scale, Scale - signal_range))
        friction_level == IF signal_range < Scale \div 4 THEN "low"
                          ELSE IF signal_range < Scale \div 2 THEN "moderate"
                          ELSE "high"
        limiting_factor == IF Len(layer_values) = Len(LAYER_NAMES)
                           THEN Some(LAYER_NAMES[IndexOf(layer_values, lo)]) ELSE None
        emergence_window == coherence >= (7 * Scale) \div 10
                            /\ \A i \in 1..Len(layer_values) :
                                   layer_values[i] > _DETECTION_THRESHOLD_FALLBACK
    IN [friction_level |-> friction_level, emergence_window |-> emergence_window,
        limiting_factor |-> limiting_factor, dominant_layer |-> None,
        coherence |-> Some(Round4(coherence)), note |-> "mantic_unavailable"]

_local_mantic_summary_from_signals(layer_values) ==
    IF layer_values = <<>>
    THEN [friction_level |-> "moderate", emergence_window |-> FALSE, limiting_factor |-> None,
          dominant_layer |-> None, coherence |-> None, note |-> "mantic_unavailable"]
    ELSE
    LET lo == SeqMin(layer_values)
        hi == SeqMax(layer_values)
        signal_range == hi - lo
        coherence == Max2(0, Min2(Scale, Scale - signal_range))
        friction_level == IF signal_range < Scale \div 4 THEN "low"
                          ELSE IF signal_range < Scale \div 2 THEN "moderate"
                          ELSE "high"
        limiting_factor == IF Len(layer_values) = Len(LAYER_NAMES)
                           THEN Some(LAYER_NAMES[IndexOf(layer_values, lo)]) ELSE None
        emergence_window == coherence >= (7 * Scale) \div 10
                            /\ \A i \in 1..Len(layer_values) :
                                   layer_values[i] >= _DETECTION_THRESHOLD_FALLBACK
    IN [friction_level |-> friction_level, emergence_window |-> emergence_window,
        limiting_factor |-> limiting_factor, dominant_layer |-> None,
        coherence |-> Some(Round4(coherence)), note |-> "mantic_unavailable"]

_SIGNAL_CORE_PROFILE == "signal_core"

_SIGNAL_CORE_TO_HEALTH_LAYER ==
    [micro |-> "vital_stability", meso |-> "activity_recovery",
     macro |-> "metabolic_balance", meta |-> "preventive_readiness"]

\* The layer values sent in the health order whatever the profile
LayerValuesAsGiven(profile_name, layer_values) == layer_values

_mantic_layer_values_for_profile(profile_name, layer_values) ==
    IF profile_name = _SIGNAL_CORE_PROFILE /\ Len(layer_values) = 4
    THEN <<layer_values[1], layer_values[3], layer_values[2], layer_values[4]>>
    ELSE layer_values

\* factor: None or Some(name)
_map_mantic_factor(profile_name, factor) ==
    IF IsNone(factor) THEN None
    ELSE IF profile_name = _SIGNAL_CORE_PROFILE
    THEN (IF Val(factor) \in DOMAIN _SIGNAL_CORE_TO_HEALTH_LAYER
          THEN Some(_SIGNAL_CORE_TO_HEALTH_LAYER[Val(factor)]) ELSE factor)
    ELSE factor

\* The profile the two detection calls use, from the cached profile set
ResolveProfile(profiles) ==
    IF profiles # {} /\ PROFILE_NAME \notin profiles /\ _SIGNAL_CORE_PROFILE \in profiles
    THEN [used |-> _SIGNAL_CORE_PROFILE, fallback |-> TRUE]
    ELSE [used |-> PROFILE_NAME, fallback |-> FALSE]

\* Step 4b: the summary built from the two remote results
RemoteManticSummary(profile_used, friction_result, emergence_result) ==
    LET coupling_data == Get(friction_result, "layer_coupling")
        coherence_val == IF IsNone(coupling_data) THEN None ELSE Get(coupling_data, "coherence")
        visibility == Get(friction_result, "layer_visibility")
        window == Get(emergence_result, "window_detected")
    IN [friction_level |-> _friction_level_from_score(Get(friction_result, "m_score")),
        emergence_window |-> IF IsNone(window) THEN FALSE ELSE Val(window),
        limiting_factor |-> _map_mantic_factor(profile_used, Get(emergence_result, "limiting_factor")),
        dominant_layer |-> IF IsNone(visibility) THEN None ELSE Get(visibility, "dominant"),
        coherence |-> coherence_val]

\* max(signals.items(), key=value)[0] / min(...): the first extreme layer in dict order
_compute_exports(signals, mantic_summary) ==
    IF DOMAIN signals = {} THEN EmptyDict
    ELSE
    LET names == SelectSeq(LAYER_NAMES, LAMBDA n : n \in DOMAIN signals)
        vals == [i \in 1..Len(names) |-> signals[names[i]]]
        strongest == names[IndexOf(vals, SeqMax(vals))]
        weakest == names[IndexOf(vals, SeqMin(vals))]
        coherence == Get(mantic_summary, "coherence")
        risk == IF mantic_summary.friction_level = "high" THEN <<"high_divergence", weakest>>
                ELSE IF ~IsNone(coherence) /\ Val(coherence) < (6 * Scale) \div 10
                THEN <<"mismatched", weakest>>
                ELSE IF ~IsNone(mantic_summary.limiting_factor)
                THEN <<"limiting_factor", Val(mantic_summary.limiting_factor)>>
                ELSE <<>>
        opportunity == IF mantic_summary.emergence_window THEN <<"set_new_goal">> ELSE <<>>
    IN [health_signal_summary |-> [signals |-> signals, strongest |-> strongest, weakest |-> weakest],
        primary_health_risk |-> risk,
        primary_health_opportunity |-> opportunity]

---------------------------------------------------------------------------
(* core/privacy/policy.py *)

GetOr(d, k, default) == IF k \in DOMAIN d THEN d[k] ELSE default

\* _round_floats on the signals dict
RoundSignals(signals, unit) == [n \in DOMAIN signals |-> RoundTo(signals[n], unit)]

\* _round_floats on the summary dict: coherence is its only float
RoundSummary(ms, unit) ==
    [k \in DOMAIN ms |->
        IF k = "coherence" /\ ~IsNone(ms[k]) THEN Some(RoundTo(Val(ms[k]), unit)) ELSE ms[k]]

\* _round_floats on an optional float held in thousandths (sleep hours)
RoundMilli2(o) == IF IsNone(o) THEN None ELSE Some(RoundTo(Val(o), 10))

\* {k: v for k, v in provenance.items() if v}
NonEmptyProvenance(full) ==
    [k \in {x \in {"data_source", "data_source_note"} : x \in DOMAIN full /\ full[x] # ""}
        |-> full[k]]

\* Variant of BaseContextStrict: the friction block rides along with the summary
BaseContextWithFriction(full) ==
    [period |-> GetOr(full, "period", None),
     signals |-> RoundSignals(GetOr(full, "signals", EmptyDict), Scale \div 10000),
     mantic |-> [summary |-> GetOr(full, "mantic_summary", EmptyDict),
                 friction |-> Get(full, "friction")],
     provenance |-> NonEmptyProvenance(full)]

BaseContextStrict(full) ==
    [period |-> GetOr(full, "period", None),
     signals |-> RoundSignals(GetOr(full, "signals", EmptyDict), Scale \div 10000),
     mantic |-> GetOr(full, "mantic_summary", EmptyDict),
     provenance |-> NonEmptyProvenance(full)]

\* base.update({...}) then _round_floats(base, ndigits=2)
StandardContext(full) ==
    LET base == BaseContextStrict(full)
    IN [period |-> base.period,
        signals |-> RoundSignals(base.signals, Scale \div 100),
        mantic |-> RoundSummary(base.mantic, Scale \div 100),
        provenance |-> base.provenance,
        resting_heart_rate_bpm |-> Get(full, "resting_heart_rate"),
        blood_pressure |-> [systolic_avg |-> Get(full, "blood_pressure_systolic"),
                            diastolic_avg |-> Get(full, "blood_pressure_diastolic")],
        hrv_ms |-> Get(full, "hrv_ms"),
        sleep_duration_hours |-> RoundMilli2(Get(full, "sleep_duration_hours")),
        exercise_sessions_per_week |-> Get(full, "exercise_sessions_per_week"),
        bmi |-> Get(full, "bmi"),
        lab_count |-> Get(full, "lab_count")]

\* explicit_ctx = dict(full); if not include_mantic_raw: explicit_ctx.pop("mantic_raw", None)
ExplicitContext(full, include_mantic_raw) ==
    [k \in (DOMAIN full) \ (IF include_mantic_raw THEN {} ELSE {"mantic_raw"}) |-> full[k]]

\* Variant of build_llm_data_context: an omitted filter
BuildExplicitAlways(full_data_context, privacy_mode, include_mantic_raw) ==
    ExplicitContext(full_data_context, include_mantic_raw)

\* Any mode value other than "strict" and "standard" takes the explicit branch.
build_llm_data_context(full_data_context, privacy_mode, include_mantic_raw) ==
    IF privacy_mode = "strict" THEN BaseContextStrict(full_data_context)
    ELSE IF privacy_mode = "standard" THEN StandardContext(full_data_context)
    ELSE ExplicitContext(full_data_context, include_mantic_raw)

---------------------------------------------------------------------------
(* core/scaffold/engine.py, matcher.py, registry.py *)

DEFAULT_SCAFFOLD_ID == "personal_health_signal"

\* A scaffold as the selector sees it: id and applicability (tools, keywords, intent
\* signals). A keyword is one word; an intent signal is a sequence of words.
Scaffold(id, tools, keywords, intent_signals) ==
    [id |-> id, tools |-> tools, keywords |-> keywords, intent_signals |-> intent_signals]

\* The registry as loaded at startup: scaffolds in registration order
\* (tests/conftest.py fixture: neutral, risk, growth).
Registry ==
    << Scaffold("personal_health_signal", {"personal_health_signal"},
                {"health", "wellness", "vitals", "signals"}, {}),
       Scaffold("personal_health_signal.risk", {"personal_health_signal"},
                {"health", "risk"}, {}),
       Scaffold("personal_health_signal.growth", {"personal_health_signal"},
                {"health", "growth"}, {}) >>

\* registry.get(id): Some(id) when registered
RegistryGet(registry, id) ==
    IF \E i \in 1..Len(registry) : registry[i].id = id THEN Some(id) ELSE None

\* registry.find_by_tool(tool): ids in registration order
FindByTool(registry, tool) ==
    LET hits == SelectSeq(registry, LAMBDA s : tool \in s.tools)
    IN [i \in 1..Len(hits) |-> hits[i].id]

\* A Python value that is not None and not the empty string
Truthy(o) == ~IsNone(o) /\ Val(o) # ""

INTENT_WEIGHT == 2
KEYWORD_WEIGHT == 1
\* Scores are held in units of 1/ScoreUnit (signals have one to three words)
ScoreUnit == 2 * 3

\* The score of one scaffold; user_input is the set of words of the lower-cased input
\* (`w in user_lower` is read as: w is one of its words)
ScaffoldScore(scaffold, user_input) ==
    LET SignalScore(signal) ==
            LET matches == Cardinality({k \in 1..Len(signal) : signal[k] \in user_input})
            IN IF 2 * matches >= Len(signal)
               THEN (INTENT_WEIGHT * ScoreUnit * matches) \div Len(signal)
               ELSE 0
        RECURSIVE Sum(_)
        Sum(S) == IF S = {} THEN 0
                  ELSE LET x == CHOOSE x \in S : TRUE IN SignalScore(x) + Sum(S \ {x})
    IN Sum(scaffold.intent_signals)
       + KEYWORD_WEIGHT * ScoreUnit * Cardinality(scaffold.keywords \cap user_input)

\* _score_scaffolds: the first scaffold with the highest score, if that score is positive
_score_scaffolds(scaffolds, user_input) ==
    LET score(i) == ScaffoldScore(scaffolds[i], user_input)
        best == {i \in 1..Len(scaffolds) :
                    /\ score(i) > 0
                    /\ \A j \in 1..Len(scaffolds) : score(j) <= score(i)
                    /\ \A j \in 1..(i - 1) : score(j) < score(i)}
    IN IF best = {} THEN None ELSE Some(scaffolds[CHOOSE i \in best : TRUE].id)

\* The matcher with scoring ahead of the tool-name match
MatchScoringFirst(registry, tool_name, user_input, caller_scaffold_id) ==
    IF Truthy(caller_scaffold_id) /\ ~IsNone(RegistryGet(registry, Val(caller_scaffold_id)))
    THEN caller_scaffold_id
    ELSE IF user_input # {} /\ ~IsNone(_score_scaffolds(registry, user_input))
    THEN _score_scaffolds(registry, user_input)
    ELSE IF FindByTool(registry, tool_name) # <<>>
    THEN Some(FindByTool(registry, tool_name)[1])
    ELSE None

match_scaffold(registry, tool_name, user_input, caller_scaffold_id) ==
    IF Truthy(caller_scaffold_id) /\ ~IsNone(RegistryGet(registry, Val(caller_scaffold_id)))
    THEN caller_scaffold_id
    ELSE IF FindByTool(registry, tool_name) # <<>>
    THEN Some(FindByTool(registry, tool_name)[1])
    ELSE IF user_input # {} THEN _score_scaffolds(registry, user_input)
    ELSE None

\* A Python value together with what isinstance tells about it
PyDict(d) == [type |-> "dict", value |-> d]
PyStr(x) == [type |-> "str", value |-> [str |-> x]]
PyNone == [type |-> "none", value |-> EmptyDict]

\* The routing with the friction check ahead of the emergence check
ContextRouteFrictionFirst(registry, tool_name, caller_scaffold_id, tool_context) ==
    IF ~(DOMAIN tool_context # {} /\ tool_name = "personal_health_signal"
         /\ ~Truthy(caller_scaffold_id))
    THEN None
    ELSE
    LET ms == IF "mantic_summary" \in DOMAIN tool_context THEN tool_context.mantic_summary
              ELSE PyNone
    IN IF ms.type # "dict" THEN None
       ELSE
       LET coherence == Get(ms.value, "coherence")
           growth == RegistryGet(registry, "personal_health_signal.growth")
           risk == RegistryGet(registry, "personal_health_signal.risk")
       IN IF (GetOr(ms.value, "friction_level", "") = "high"
              \/ (~IsNone(coherence) /\ Val(coherence) < (6 * Scale) \div 10))
             /\ ~IsNone(risk) THEN risk
          ELSE IF GetOr(ms.value, "emergence_window", FALSE) = TRUE /\ ~IsNone(growth)
          THEN growth
          ELSE None

\* Context-aware routing of select: Some(id) when it returns a scaffold, None when the
\* selection falls through to match_scaffold
ContextRoute(registry, tool_name, caller_scaffold_id, tool_context) ==
    IF ~(DOMAIN tool_context # {} /\ tool_name = "personal_health_signal"
         /\ ~Truthy(caller_scaffold_id))
    THEN None
    ELSE
    LET ms == IF "mantic_summary" \in DOMAIN tool_context THEN tool_context.mantic_summary
              ELSE PyNone
    IN IF ms.type # "dict" THEN None
       ELSE
       LET coherence == Get(ms.value, "coherence")
           growth == RegistryGet(registry, "personal_health_signal.growth")
           risk == RegistryGet(registry, "personal_health_signal.risk")
       IN IF GetOr(ms.value, "emergence_window", FALSE) = TRUE /\ ~IsNone(growth) THEN growth
          ELSE IF (GetOr(ms.value, "friction_level", "") = "high"
                   \/ (~IsNone(coherence) /\ Val(coherence) < (6 * Scale) \div 10))
                  /\ ~IsNone(risk) THEN risk
          ELSE None

\* ScaffoldEngine.select: Some(id), or None for ScaffoldNotFoundError
select(registry, tool_name, user_input, caller_scaffold_id, tool_context) ==
    LET routed == ContextRoute(registry, tool_name, caller_scaffold_id, tool_context)
        matched == match_scaffold(registry, tool_name, user_input, caller_scaffold_id)
    IN IF ~IsNone(routed) THEN routed
       ELSE IF ~IsNone(matched) THEN matched
       ELSE RegistryGet(registry, DEFAULT_SCAFFOLD_ID)

---------------------------------------------------------------------------
(* core/mantic/client.py *)

\* Python values with what isinstance tells about them (PyDict, PyStr, PyNone above)
PyList(items) == [type |-> "list", value |-> [items |-> items]]
PyNum(n) == [type |-> "num", value |-> [num |-> n]]
PyBool(b) == [type |-> "bool", value |-> [bool |-> b]]
PyBytes(x) == [type |-> "bytes", value |-> [bytes |-> x]]
\* An object with the given attributes (a content block)
PyObj(attrs) == [type |-> "obj", value |-> [attrs |-> attrs]]

\* `not result`
Falsy(v) ==
    \/ v.type = "none"
    \/ v.type = "str" /\ v.value.str = ""
    \/ v.type = "list" /\ v.value.items = <<>>
    \/ v.type = "dict" /\ DOMAIN v.value = {}
    \/ v.type = "num" /\ v.value.num = 0

\* The texts a server can answer with
OkText == "{\"status\": \"ok\", \"result\": {\"m_score\": 0.2}}"
OkNoResultText == "{\"status\": \"ok\"}"
OkResultListText == "{\"status\": \"ok\", \"result\": [1]}"
OkNoScoreText == "{\"status\": \"ok\", \"result\": {\"window_detected\": true}}"
ProfilesText == "{\"profiles\": [\"consumer_health\"]}"
ErrorText == "{\"status\": \"error\", \"error\": \"unknown_profile\"}"
\* status error with an error code written with 5000 digits
ErrorHugeCodeText == "{\"status\": \"error\", \"error\": 99999...99999}"
\* an array nested 100000 deep
DeepArrayText == "[[[[[...]]]]]"
NotJsonText == "not json at all"

\* The objects those texts denote
OkObject == [status |-> PyStr("ok"), result |-> PyDict([m_score |-> PyNum(2)])]
OkNoResultObject == [status |-> PyStr("ok")]
OkResultListObject == [status |-> PyStr("ok"), result |-> PyList(<<PyNum(1)>>)]
OkNoScoreObject == [status |-> PyStr("ok"), result |-> PyDict([window_detected |-> PyBool(TRUE)])]
ProfilesObject == [profiles |-> PyList(<<PyStr("consumer_health")>>)]
ErrorObject == [status |-> PyStr("error"), error |-> PyStr("unknown_profile")]

\* json.loads: the exception it raises ("" when none) and the value it returns.
\* The decoder raises JSONDecodeError on text that is not JSON, RecursionError on
\* nesting deeper than the interpreter's recursion limit, and ValueError on an integer
\* literal longer than the interpreter's digit limit.
Loaded(v) == [raised |-> "", value |-> v]
LoadFails(e) == [raised |-> e, value |-> PyNone]
JsonLoads(text) ==
    CASE text = OkText -> Loaded(PyDict(OkObject))
      [] text = OkNoResultText -> Loaded(PyDict(OkNoResultObject))
      [] text = OkResultListText -> Loaded(PyDict(OkResultListObject))
      [] text = OkNoScoreText -> Loaded(PyDict(OkNoScoreObject))
      [] text = ProfilesText -> Loaded(PyDict(ProfilesObject))
      [] text = ErrorText -> Loaded(PyDict(ErrorObject))
      [] text = "[1, 2]" -> Loaded(PyList(<<PyNum(1), PyNum(2)>>))
      [] text = "null" -> Loaded(PyNone)
      [] text = "42" -> Loaded(PyNum(42))
      [] text = "\"ok\"" -> Loaded(PyStr("ok"))
      [] text = DeepArrayText -> LoadFails("RecursionError")
      [] text = ErrorHugeCodeText -> LoadFails("ValueError")
      [] OTHER -> LoadFails("JSONDecodeError")

_payload_from_block(block, prefer_json) ==
    IF block.type = "dict"
    THEN IF prefer_json /\ "data" \in DOMAIN block.value THEN block.value.data
         ELSE IF prefer_json /\ "json" \in DOMAIN block.value THEN block.value.json
         ELSE IF "text" \in DOMAIN block.value THEN block.value.text
         ELSE PyNone
    ELSE
    LET attrs == IF block.type = "obj" THEN block.value.attrs ELSE EmptyDict
    IN IF prefer_json /\ "data" \in DOMAIN attrs THEN attrs.data
       ELSE IF prefer_json /\ "json" \in DOMAIN attrs THEN attrs.json
       ELSE IF "text" \in DOMAIN attrs THEN attrs.text
       ELSE IF block.type = "str" THEN block
       ELSE PyNone

\* The payload of the first block of a list that has one
FirstPayload(items, prefer_json) ==
    LET hits == {i \in 1..Len(items) : _payload_from_block(items[i], prefer_json).type # "none"}
    IN IF hits = {} THEN PyNone
       ELSE _payload_from_block(items[CHOOSE i \in hits : \A j \in hits : i <= j], prefer_json)

_extract_payload(result) ==
    IF result.type = "dict" THEN result
    ELSE IF result.type = "list"
    THEN IF FirstPayload(result.value.items, TRUE).type # "none"
         THEN FirstPayload(result.value.items, TRUE)
         ELSE FirstPayload(result.value.items, FALSE)
    ELSE IF result.type = "str" THEN result
    ELSE IF _payload_from_block(result, TRUE).type # "none"
    THEN _payload_from_block(result, TRUE)
    ELSE _payload_from_block(result, FALSE)

ClientRaises(e) == [kind |-> "raised", error |-> e, value |-> PyNone]
ClientReturns(v) == [kind |-> "returned", error |-> "", value |-> v]

\* parsed.get(key) == text
GetIsText(parsed, key, text) ==
    /\ key \in DOMAIN parsed.value
    /\ parsed.value[key].type = "str"
    /\ parsed.value[key].value.str = text

\* The checks of _call_tool on the parsed object
CheckParsed(tool_name, parsed) ==
    IF parsed.type # "dict" THEN ClientRaises("ManticResponseError")
    ELSE IF GetIsText(parsed, "status", "error") THEN ClientRaises("ManticDetectionError")
    ELSE IF tool_name \in {"mantic_detect_friction", "mantic_detect_emergence"}
            /\ (\/ ~GetIsText(parsed, "status", "ok")
                \/ "result" \notin DOMAIN parsed.value
                \/ parsed.value.result.type # "dict")
    THEN ClientRaises("ManticResponseError")
    ELSE ClientReturns(parsed)

\* ManticMCPClient._call_tool; transport: what self._client.call_tool did
\* (raises: the exception it raised, "" when it returned; result: what it returned)
_call_tool(tool_name, transport) ==
    IF transport.raises # "" THEN ClientRaises("ManticConnectionError")
    ELSE IF Falsy(transport.result) THEN ClientRaises("ManticResponseError")
    ELSE
    LET payload == _extract_payload(transport.result)
    IN IF payload.type = "none" THEN ClientRaises("ManticResponseError")
       ELSE IF payload.type = "str"
       THEN LET loaded == JsonLoads(payload.value.str)
            IN IF loaded.raised \in {"JSONDecodeError", "TypeError"}
               THEN ClientRaises("ManticResponseError")
               ELSE IF loaded.raised # "" THEN ClientRaises(loaded.raised)
               ELSE CheckParsed(tool_name, loaded.value)
       ELSE CheckParsed(tool_name, payload)

---------------------------------------------------------------------------
(* The orchestrator: personal_health_signal, one request at a time *)

VARIABLES
    auditConfigured,  \* audit_logger is not None
    repoConfigured,   \* repository is not None
    llmProvider,      \* the provider the InnerLLMClient was built with
    cache,            \* _mantic_profiles_cache: None or Some(set of profile names)
    pc,               \* where the current invocation stands
    req,              \* the caller's arguments
    eff,              \* effective_privacy_mode, effective_store_mode, include_mantic_raw
    bundle,           \* the five provider reads
    signals,          \* translate_health_to_mantic(...)
    triggers,         \* escalation_triggers
    mantic,           \* profile, raw results and summary of step 4
    ctx,              \* data_context, llm_data_context and the context given to the provider
    calls,            \* the collaborator calls of this invocation, in order
    outcome,          \* what the invocation gave its caller
    snapshot,         \* the record handed to save_snapshot, and snapshot_id
    audit,            \* the events log_tool_call received in this invocation
    gate,             \* _detect_escalation_triggers on its own: arguments and result
    privacy,          \* build_llm_data_context on its own: arguments and results
    selection,        \* ScaffoldEngine.select on its own: arguments and result
    callers,          \* concurrent callers of _get_mantic_profiles
    client,           \* ManticMCPClient._call_tool on its own
    call              \* a function called on its own: its arguments and its result

vars == <<auditConfigured, repoConfigured, llmProvider, cache, pc, req, eff, bundle, signals,
          triggers, mantic, ctx, calls, outcome, snapshot, audit, gate, privacy,
          selection, callers, client, call>>

config == <<auditConfigured, repoConfigured, llmProvider>>
pipeline == <<cache, pc, req, eff, bundle, signals, triggers, mantic, ctx, calls,
              outcome, snapshot, audit>>
invocation == <<pc, req, eff, bundle, signals, triggers, mantic, ctx, calls,
                outcome, snapshot, audit>>
units == <<gate, privacy, selection, callers, client, call>>
static == <<config, units>>

\* InnerLLMClient's instance attributes (core/llm/client.py __init__)
LlmClientAttrs == [provider |-> llmProvider]

\* ---- inputs ----

PrivacyInputs == {"None", "", "strict", "standard", "explicit", "full"}
StoreInputs == {"None", "encrypted", "none", "plain"}

VitalsGood(systolic) ==
    [rhr |-> Some(65), systolic |-> systolic, diastolic |-> Some(80),
     hrv |-> Some(60), spo2 |-> Some(98)]
VitalsBad(systolic) ==
    [rhr |-> Some(110), systolic |-> systolic, diastolic |-> Some(110),
     hrv |-> Some(10), spo2 |-> Some(91)]

LabsBad ==
    ("fasting glucose" :> 200) @@ ("hba1c" :> 90) @@ ("ldl cholesterol" :> 200)
    @@ ("hdl cholesterol" :> 25) @@ ("triglycerides" :> 300)

ActivityBad ==
    [sessions |-> Some(0), consistency |-> Some(10), duration |-> Some(4256),
     quality |-> Some(20), recovery |-> Some(20), strain_high |-> Some(TRUE)]

PreventiveBad ==
    [screenings |-> <<"overdue", "overdue">>, vaccinations |-> <<"overdue">>,
     active_prescriptions |-> Some(1), adherence |-> Some(20)]

Bundle(v, l, a, p, b) ==
    [vitals |-> v, labs |-> l, activity |-> a, preventive |-> p, biometrics |-> b]

BiometricsBad == [bmi |-> Some(40), bmi_trend |-> Some(1)]

\* What the provider may hold: nothing at all, one domain only, every domain
Bundles ==
    { Bundle(EmptyDict, EmptyDict, EmptyDict, EmptyDict, EmptyDict),
      Bundle(VitalsGood(Some(195)), EmptyDict, EmptyDict, EmptyDict, EmptyDict),
      Bundle(VitalsGood(Some(180)), LabsBad, ActivityBad, PreventiveBad, BiometricsBad),
      Bundle(VitalsGood(Some(181)), EmptyDict, EmptyDict, EmptyDict, EmptyDict),
      Bundle(VitalsBad(None), LabsBad, EmptyDict, PreventiveBad, BiometricsBad),
      Bundle(VitalsBad(Some(179)), EmptyDict, EmptyDict, EmptyDict, EmptyDict),
      Bundle(VitalsBad(Some(179)), LabsBad, ActivityBad, PreventiveBad, BiometricsBad),
      Bundle(VitalsBad(Some(195)), LabsBad, ActivityBad, PreventiveBad, BiometricsBad) }

\* What list_domain_profiles may answer: a failure, or a set of names
ProfileAnswers ==
    { {}, {PROFILE_NAME, _SIGNAL_CORE_PROFILE}, {_SIGNAL_CORE_PROFILE}, {"other_domain"} }

ManticErrors == {"ManticConnectionError", "ManticResponseError", "ManticDetectionError"}

\* envelope["result"] of a successful detect_friction
FrictionResults ==
    { [m_score |-> Some((2 * Scale) \div 10), alert |-> None,
       layer_coupling |-> [coherence |-> Some((8 * Scale) \div 10)],
       layer_visibility |-> [dominant |-> Some("Micro")]],
      [m_score |-> Some((8 * Scale) \div 10), alert |-> Some("friction"),
       layer_coupling |-> [coherence |-> Some((4 * Scale) \div 10)],
       layer_visibility |-> [dominant |-> Some("Macro")]] }

\* envelope["result"] of a successful detect_emergence
EmergenceResults ==
    { [m_score |-> Some((6 * Scale) \div 10), window_detected |-> Some(TRUE),
       window_type |-> Some("aligned"), limiting_factor |-> None],
      [m_score |-> Some((3 * Scale) \div 10), window_detected |-> Some(FALSE),
       window_type |-> None, limiting_factor |-> Some("meso")] }

\* get_provenance() of the provider in use (MockHealthDataProvider)
Provenance == [data_source |-> "mock", data_source_note |-> "simulated"]

\* ---- per-invocation state before anything ran ----

NoMantic ==
    [profile_used |-> PROFILE_NAME, profile_fallback |-> FALSE,
     friction_result |-> EmptyDict, emergence_result |-> EmptyDict,
     summary |-> EmptyDict, failed |-> {}, sent |-> <<>>]
NoCtx == [full |-> EmptyDict, llm |-> EmptyDict, prompt |-> EmptyDict, generated |-> FALSE]
NoOutcome == [kind |-> "none", content |-> EmptyDict, error |-> ""]
NoSnapshot == [saved |-> EmptyDict, id |-> None]
NoBundle ==
    [vitals |-> EmptyDict, labs |-> EmptyDict, activity |-> EmptyDict,
     preventive |-> EmptyDict, biometrics |-> EmptyDict]
NoSignals == [layer_values |-> <<>>, details |-> EmptyDict]
NoEff == [privacy_mode |-> "", store_mode |-> "", include_mantic_raw |-> FALSE]

InitPipeline ==
    /\ cache = None
    /\ pc = "idle"
    /\ req = [privacy_mode |-> "None", store_mode |-> "None", include_mantic_raw |-> FALSE]
    /\ eff = NoEff
    /\ bundle = NoBundle
    /\ signals = NoSignals
    /\ triggers = <<>>
    /\ mantic = NoMantic
    /\ ctx = NoCtx
    /\ calls = <<>>
    /\ outcome = NoOutcome
    /\ snapshot = NoSnapshot
    /\ audit = <<>>

NoGate == [layer_values |-> <<>>, signal_details |-> EmptyDict, vitals_data |-> EmptyDict,
           result |-> None]
NoPrivacy == [a |-> EmptyDict, b |-> EmptyDict, privacy_mode |-> "",
              include_mantic_raw |-> FALSE, built |-> FALSE,
              out_a |-> EmptyDict, out_b |-> EmptyDict]
NoSelection == [registry |-> <<>>, tool_name |-> "", user_input |-> {},
                caller_scaffold_id |-> None, tool_context |-> EmptyDict,
                done |-> FALSE, result |-> None]
NoCallers == <<>>
NoClient == <<>>
NoCall == <<>>

Init ==
    /\ auditConfigured \in BOOLEAN
    /\ repoConfigured \in BOOLEAN
    /\ llmProvider = "mock"
    /\ InitPipeline
    /\ gate = NoGate
    /\ privacy = NoPrivacy
    /\ selection = NoSelection
    /\ callers = NoCallers
    /\ client = NoClient
    /\ call = NoCall

\* ---- step 5: the full data_context ----

data_context(b, sig, m) ==
    LET snap == SignalSnapshot(sig.layer_values)
        fr == m.friction_result
        er == m.emergence_result
        window == Get(er, "window_detected")
        exports == _compute_exports(snap, m.summary)
    IN [period |-> "last_30_days",
        resting_heart_rate |-> Get(b.vitals, "rhr"),
        blood_pressure_systolic |-> Get(b.vitals, "systolic"),
        blood_pressure_diastolic |-> Get(b.vitals, "diastolic"),
        hrv_ms |-> Get(b.vitals, "hrv"),
        exercise_sessions_per_week |-> Get(b.activity, "sessions"),
        sleep_duration_hours |-> Get(b.activity, "duration"),
        bmi |-> Get(b.biometrics, "bmi"),
        lab_count |-> Some(Cardinality(DOMAIN b.labs)),
        signals |-> snap,
        signal_details |-> sig.details,
        mantic_summary |-> m.summary,
        mantic_raw |-> [friction |-> fr, emergence |-> er],
        mantic_profile |-> m.profile_used,
        mantic_profile_fallback |-> m.profile_fallback,
        friction |-> [m_score |-> Get(fr, "m_score"),
                      detected |-> ~IsNone(Get(fr, "alert")),
                      layer_coupling |-> Get(fr, "layer_coupling"),
                      layer_visibility |-> Get(fr, "layer_visibility")],
        emergence |-> [m_score |-> Get(er, "m_score"),
                       detected |-> IF IsNone(window) THEN FALSE ELSE Val(window),
                       window_type |-> Get(er, "window_type")],
        data_source |-> Provenance.data_source,
        data_source_note |-> Provenance.data_source_note,
        health_signal_summary |-> exports.health_signal_summary,
        primary_health_risk |-> exports.primary_health_risk,
        primary_health_opportunity |-> exports.primary_health_opportunity]

\* ---- the HealthSnapshot handed to save_snapshot ----

EscalationSnapshot(b, sig) ==
    [layer_values |-> sig.layer_values, bundle |-> b,
     friction_m_score |-> None, friction_detected |-> FALSE,
     emergence_m_score |-> None, emergence_detected |-> FALSE,
     emergence_window_type |-> None]

NormalSnapshot(b, sig, m) ==
    LET window == Get(m.emergence_result, "window_detected")
    IN [layer_values |-> sig.layer_values, bundle |-> b,
        friction_m_score |-> Get(m.friction_result, "m_score"),
        friction_detected |-> ~IsNone(Get(m.friction_result, "alert")),
        emergence_m_score |-> Get(m.emergence_result, "m_score"),
        emergence_detected |-> IF IsNone(window) THEN FALSE ELSE Val(window),
        emergence_window_type |-> Get(m.emergence_result, "window_type")]

\* if repository is not None and effective_store_mode != "none": try save_snapshot
\* except Exception: log and continue. Gives the calls and the snapshot afterwards.
Persist(c, record, save_ok) ==
    IF repoConfigured /\ eff.store_mode # "none"
    THEN [calls |-> Append(c, "save_snapshot"),
          snapshot |-> IF save_ok THEN [saved |-> record, id |-> Some("sid")] ELSE NoSnapshot]
    ELSE [calls |-> c, snapshot |-> NoSnapshot]

\* ---- audit calls ----

AuditEvent(status, disclosed, snapshot_id, error_type, metadata) ==
    [status |-> status, privacy_mode |-> eff.privacy_mode, llm_disclosed |-> disclosed,
     snapshot_id |-> snapshot_id, error_type |-> error_type, metadata |-> metadata]

Raised(err) == [kind |-> "raised", content |-> EmptyDict, error |-> err]
Returned(content) == [kind |-> "returned", content |-> content, error |-> ""]

\* except Exception as exc: log a failure event (if an audit logger is set), re-raise.
\* The event's llm_provider argument reads llm_client.provider_name first.
Handler(err, c) ==
    IF ~auditConfigured THEN [calls |-> c, audit |-> <<>>, outcome |-> Raised(err)]
    ELSE IF "provider_name" \notin DOMAIN LlmClientAttrs
    THEN [calls |-> c, audit |-> <<>>, outcome |-> Raised("AttributeError")]
    ELSE [calls |-> Append(c, "log_tool_call"),
          audit |-> <<AuditEvent("failure", FALSE, None, Some(err), "none")>>,
          outcome |-> Raised(err)]

\* The audit call of the safety-gate path and of the success path, then return content.
\* An exception while building the call's arguments is inside the try block.
AuditAndReturn(content, c, snapshot_id, escalation) ==
    IF ~auditConfigured THEN [calls |-> c, audit |-> <<>>, outcome |-> Returned(content)]
    ELSE IF "provider_name" \notin DOMAIN LlmClientAttrs
    THEN Handler("AttributeError", c)
    ELSE [calls |-> Append(c, "log_tool_call"),
          audit |-> <<AuditEvent("success",
                                 IF escalation THEN FALSE
                                 ELSE LlmClientAttrs["provider_name"] # "mock",
                                 snapshot_id, None,
                                 IF escalation THEN "escalation_path" ELSE "mantic_profile")>>,
          outcome |-> Returned(content)]

\* ---- actions ----

\* Entry: lines 336-342, before the try block
Invoke ==
    /\ pc \in {"idle", "done"}
    /\ \E pm \in PrivacyInputs, sm \in StoreInputs, raw \in BOOLEAN :
        LET v == _validate_privacy_mode(pm)
        IN /\ req' = [privacy_mode |-> pm, store_mode |-> sm, include_mantic_raw |-> raw]
           /\ IF v.ok
              THEN /\ eff' = [privacy_mode |-> v.mode,
                              store_mode |-> EffectiveStoreMode(sm),
                              include_mantic_raw |-> EffectiveIncludeRaw(v.mode, raw)]
                   /\ outcome' = NoOutcome
                   /\ pc' = "gather"
              ELSE /\ eff' = NoEff
                   /\ outcome' = Raised("ValueError")
                   /\ pc' = "done"
    /\ bundle' = NoBundle
    /\ signals' = NoSignals
    /\ triggers' = <<>>
    /\ mantic' = NoMantic
    /\ ctx' = NoCtx
    /\ calls' = <<>>
    /\ snapshot' = NoSnapshot
    /\ audit' = <<>>
    /\ UNCHANGED <<static, cache>>

ProviderReads == <<"get_vitals", "get_lab_results", "get_activity_data",
                   "get_preventive_care", "get_biometrics">>

\* Steps 1-2: the five reads, then the translation
Gather ==
    /\ pc = "gather"
    /\ \E b \in Bundles :
        /\ bundle' = b
        /\ signals' = translate_health_to_mantic(b)
        /\ calls' = calls \o ProviderReads
        /\ pc' = "gate"
    /\ UNCHANGED <<static, cache, req, eff, triggers, mantic, ctx, outcome, snapshot, audit>>

\* A provider read raises: the orchestrator's except block takes over
GatherFails ==
    /\ pc = "gather"
    /\ \E k \in 1..Len(ProviderReads) :
        LET h == Handler("ProviderError", calls \o SubSeq(ProviderReads, 1, k))
        IN /\ calls' = h.calls
           /\ audit' = h.audit
           /\ outcome' = h.outcome
    /\ pc' = "done"
    /\ UNCHANGED <<static, cache, req, eff, bundle, signals, triggers, mantic, ctx, snapshot>>

\* Variant of SafetyGate: the gate evaluated, its result ignored
SafetyGateContinues ==
    /\ pc = "gate"
    /\ triggers' = _detect_escalation_triggers(signals.layer_values, bundle.vitals)
    /\ calls' = Append(calls, "gate")
    /\ pc' = "profiles"
    /\ UNCHANGED <<static, cache, req, eff, bundle, signals, mantic, ctx, snapshot, audit, outcome>>

\* Step 3: the safety gate, and the whole escalation path when it fires
SafetyGate ==
    /\ pc = "gate"
    /\ LET t == _detect_escalation_triggers(signals.layer_values, bundle.vitals)
       IN /\ triggers' = t
          /\ IF t # <<>>
             THEN \E save_ok \in BOOLEAN :
                    LET content == _render_escalation_response(t, SignalSnapshot(signals.layer_values))
                        p == Persist(Append(calls, "gate"), EscalationSnapshot(bundle, signals), save_ok)
                        r == AuditAndReturn(content, p.calls, p.snapshot.id, TRUE)
                    IN /\ snapshot' = p.snapshot
                       /\ calls' = r.calls
                       /\ audit' = r.audit
                       /\ outcome' = r.outcome
                       /\ pc' = "done"
             ELSE /\ calls' = Append(calls, "gate")
                  /\ pc' = "profiles"
                  /\ UNCHANGED <<snapshot, audit, outcome>>
    /\ UNCHANGED <<static, cache, req, eff, bundle, signals, mantic, ctx>>

\* _get_mantic_profiles with a filled cache: no remote call
ProfilesCached ==
    /\ pc = "profiles"
    /\ ~IsNone(cache)
    /\ LET r == ResolveProfile(Val(cache))
       IN mantic' = [mantic EXCEPT !.profile_used = r.used, !.profile_fallback = r.fallback]
    /\ pc' = "friction"
    /\ UNCHANGED <<static, cache, req, eff, bundle, signals, triggers, ctx, calls, outcome,
                   snapshot, audit>>

\* _get_mantic_profiles with an empty cache: list_profiles answers
ProfilesListed ==
    /\ pc = "profiles"
    /\ IsNone(cache)
    /\ \E names \in ProfileAnswers :
        LET r == ResolveProfile(names)
        IN /\ cache' = Some(names)
           /\ mantic' = [mantic EXCEPT !.profile_used = r.used, !.profile_fallback = r.fallback]
    /\ calls' = Append(calls, "list_profiles")
    /\ pc' = "friction"
    /\ UNCHANGED <<static, req, eff, bundle, signals, triggers, ctx, outcome, snapshot, audit>>

\* list_profiles raises: caught inside _get_mantic_profiles, the cache becomes set()
ProfilesFail ==
    /\ pc = "profiles"
    /\ IsNone(cache)
    /\ \E err \in ManticErrors :
        /\ cache' = Some({})
        /\ mantic' = [mantic EXCEPT !.profile_used = ResolveProfile({}).used,
                                    !.profile_fallback = ResolveProfile({}).fallback,
                                    !.failed = @ \cup {"list_profiles"}]
    /\ calls' = Append(calls, "list_profiles")
    /\ pc' = "friction"
    /\ UNCHANGED <<static, req, eff, bundle, signals, triggers, ctx, outcome, snapshot, audit>>

\* The arguments of a detection call: profile_name and the reordered layer_values
DetectionCall(tool) ==
    [tool |-> tool, profile_name |-> mantic.profile_used,
     layer_values |-> _mantic_layer_values_for_profile(mantic.profile_used,
                                                       signals.layer_values)]

\* except Exception of step 4: the local summary replaces the remote one
LocalFallback(m, which) ==
    [m EXCEPT !.summary = _local_mantic_summary_from_signals(signals.layer_values),
              !.profile_used = "unavailable",
              !.profile_fallback = FALSE,
              !.failed = @ \cup {which}]

DetectFriction ==
    /\ pc = "friction"
    /\ \E r \in FrictionResults :
        mantic' = [mantic EXCEPT !.friction_result = r,
                                 !.sent = Append(@, DetectionCall("detect_friction"))]
    /\ calls' = Append(calls, "detect_friction")
    /\ pc' = "emergence"
    /\ UNCHANGED <<static, cache, req, eff, bundle, signals, triggers, ctx, outcome, snapshot, audit>>

DetectFrictionFails ==
    /\ pc = "friction"
    /\ \E err \in ManticErrors :
        mantic' = LocalFallback([mantic EXCEPT
                                    !.sent = Append(@, DetectionCall("detect_friction"))],
                                "detect_friction")
    /\ calls' = Append(calls, "detect_friction")
    /\ pc' = "generate"
    /\ UNCHANGED <<static, cache, req, eff, bundle, signals, triggers, ctx, outcome, snapshot, audit>>

DetectEmergence ==
    /\ pc = "emergence"
    /\ \E r \in EmergenceResults :
        mantic' = [mantic EXCEPT !.emergence_result = r,
                                 !.sent = Append(@, DetectionCall("detect_emergence")),
                                 !.summary = RemoteManticSummary(mantic.profile_used,
                                                                 mantic.friction_result, r)]
    /\ calls' = Append(calls, "detect_emergence")
    /\ pc' = "generate"
    /\ UNCHANGED <<static, cache, req, eff, bundle, signals, triggers, ctx, outcome, snapshot, audit>>

\* Variant of DetectEmergenceFails: the detection error reaches the except block
DetectEmergenceRaises ==
    /\ pc = "emergence"
    /\ \E err \in ManticErrors :
        LET h == Handler(err, Append(calls, "detect_emergence"))
        IN /\ calls' = h.calls
           /\ audit' = h.audit
           /\ outcome' = h.outcome
    /\ mantic' = [mantic EXCEPT !.failed = @ \cup {"detect_emergence"},
                                !.sent = Append(@, DetectionCall("detect_emergence"))]
    /\ pc' = "done"
    /\ UNCHANGED <<static, cache, req, eff, bundle, signals, triggers, ctx, snapshot>>

DetectEmergenceFails ==
    /\ pc = "emergence"
    /\ \E err \in ManticErrors :
        mantic' = LocalFallback([mantic EXCEPT
                                    !.sent = Append(@, DetectionCall("detect_emergence"))],
                                "detect_emergence")
    /\ calls' = Append(calls, "detect_emergence")
    /\ pc' = "generate"
    /\ UNCHANGED <<static, cache, req, eff, bundle, signals, triggers, ctx, outcome, snapshot, audit>>

\* engine.select(tool_name="personal_health_signal", user_input=period,
\*               caller_scaffold_id=scaffold_id, tool_context={"mantic_summary": ...})
SelectedScaffold ==
    select(Registry, "personal_health_signal", {"last_30_days"}, None,
           [mantic_summary |-> PyDict(mantic.summary)])

\* Steps 5-6: context, scaffold, privacy filter, prompt, generation call
\* (step 5b, the optional historical_context key read from stored snapshots, is left out:
\* it adds one key to the full context and its failures are caught where they occur)
Generate ==
    /\ pc = "generate"
    /\ LET full == data_context(bundle, signals, mantic)
           scaffold == SelectedScaffold
           llm == build_llm_data_context(full, eff.privacy_mode, eff.include_mantic_raw)
       IN /\ ~IsNone(scaffold)
          /\ ctx' = [full |-> full, llm |-> llm, prompt |-> llm, generated |-> TRUE]
          /\ outcome' = [kind |-> "none", error |-> "",
                         content |-> [kind |-> "generated", scaffold |-> Val(scaffold)]]
    /\ calls' = Append(calls, "llm_invoke")
    /\ pc' = "finish"
    /\ UNCHANGED <<static, cache, req, eff, bundle, signals, triggers, mantic, snapshot, audit>>

\* The generation call raises (provider error): the except block takes over
GenerateFails ==
    /\ pc = "generate"
    /\ LET full == data_context(bundle, signals, mantic)
           llm == build_llm_data_context(full, eff.privacy_mode, eff.include_mantic_raw)
           h == Handler("ProviderError", Append(calls, "llm_invoke"))
       IN /\ ctx' = [full |-> full, llm |-> llm, prompt |-> llm, generated |-> FALSE]
          /\ calls' = h.calls
          /\ audit' = h.audit
          /\ outcome' = h.outcome
    /\ pc' = "done"
    /\ UNCHANGED <<static, cache, req, eff, bundle, signals, triggers, mantic, snapshot>>

\* Variant of Finish: an exception of save_snapshot reaches the except block
FinishSaveRaises ==
    /\ pc = "finish"
    /\ \E save_ok \in BOOLEAN :
        LET p == Persist(calls, NormalSnapshot(bundle, signals, mantic), save_ok)
            r == IF save_ok \/ p.calls = calls
                 THEN AuditAndReturn(outcome.content, p.calls, p.snapshot.id, FALSE)
                 ELSE Handler("RepositoryError", p.calls)
        IN /\ snapshot' = p.snapshot
           /\ calls' = r.calls
           /\ audit' = r.audit
           /\ outcome' = r.outcome
    /\ pc' = "done"
    /\ UNCHANGED <<static, cache, req, eff, bundle, signals, triggers, mantic, ctx>>

\* Steps 7-8: persistence, the success audit call, return response.content
Finish ==
    /\ pc = "finish"
    /\ \E save_ok \in BOOLEAN :
        LET p == Persist(calls, NormalSnapshot(bundle, signals, mantic), save_ok)
            r == AuditAndReturn(outcome.content, p.calls, p.snapshot.id, FALSE)
        IN /\ snapshot' = p.snapshot
           /\ calls' = r.calls
           /\ audit' = r.audit
           /\ outcome' = r.outcome
    /\ pc' = "done"
    /\ UNCHANGED <<static, cache, req, eff, bundle, signals, triggers, mantic, ctx>>

Next ==
    \/ Invoke
    \/ Gather
    \/ GatherFails
    \/ SafetyGate
    \/ ProfilesCached
    \/ ProfilesListed
    \/ ProfilesFail
    \/ DetectFriction
    \/ DetectFrictionFails
    \/ DetectEmergence
    \/ DetectEmergenceFails
    \/ Generate
    \/ GenerateFails
    \/ Finish

Spec == Init /\ [][Next]_vars

\* The same requests on a server whose settings name a remote provider (app.py 81-88)
\* and that has an audit logger
InitDisclosure ==
    /\ auditConfigured = TRUE
    /\ repoConfigured \in BOOLEAN
    /\ llmProvider \in {"anthropic", "openai"}
    /\ InitPipeline
    /\ gate = NoGate
    /\ privacy = NoPrivacy
    /\ selection = NoSelection
    /\ callers = NoCallers
    /\ client = NoClient
    /\ call = NoCall

SpecDisclosure == InitDisclosure /\ [][Next]_vars

---------------------------------------------------------------------------
(* _detect_escalation_triggers called on its own, as the unit tests call it *)

GateValues == {Scale \div 10, LowSignalThreshold - 1, LowSignalThreshold, Scale \div 2}
GateLayerValues == {<<a, b, c, d>> : a \in GateValues, b \in GateValues,
                                     c \in GateValues, d \in GateValues}
LayerNameSet == {LAYER_NAMES[i] : i \in 1..Len(LAYER_NAMES)}
\* One layer's details: sub-signals of a real measurement, or a fallback marker
GateDetails == [LayerNameSet -> {[sub_signals |-> "measured"], [fallback |-> "no_data"]}]
GateVitals ==
    {EmptyDict} \cup {[systolic |-> s] :
                        s \in {None, Some(179), Some(180), Some(181), Some(195)}}

HasFallback(details) == "fallback" \in DOMAIN details

InitGate ==
    /\ auditConfigured = FALSE
    /\ repoConfigured = FALSE
    /\ llmProvider = "mock"
    /\ InitPipeline
    /\ privacy = NoPrivacy
    /\ selection = NoSelection
    /\ callers = NoCallers
    /\ client = NoClient
    /\ call = NoCall
    /\ \E lv \in GateLayerValues, sd \in GateDetails, vd \in GateVitals :
        gate = [layer_values |-> lv, signal_details |-> sd, vitals_data |-> vd,
                result |-> None]

\* The call: signal details are no argument of the function
DetectGate ==
    /\ IsNone(gate.result)
    /\ gate.layer_values # <<>>
    /\ gate' = [gate EXCEPT !.result =
                    Some(_detect_escalation_triggers(gate.layer_values, gate.vitals_data))]
    /\ UNCHANGED <<config, pipeline, privacy, selection, callers, client, call>>

NextGate == DetectGate

SpecGate == InitGate /\ [][NextGate]_vars

---------------------------------------------------------------------------
(* build_llm_data_context called on its own, on two full contexts at a time *)

PrivacyModes == {"strict", "standard", "explicit"}

UnitSignals ==
    { [n \in LayerNameSet |-> FALLBACK_NO_DATA],
      [n \in LayerNameSet |-> IF n = "vital_stability" THEN 806257 ELSE 62537] }

UnitSummary(sig) ==
    _local_mantic_summary_from_signals([i \in 1..4 |-> sig[LAYER_NAMES[i]]])

UnitContext(period, sig, src, hr, sleep, m_score) ==
    [period |-> period,
     resting_heart_rate |-> hr,
     blood_pressure_systolic |-> Some(120),
     blood_pressure_diastolic |-> Some(80),
     hrv_ms |-> Some(45),
     exercise_sessions_per_week |-> Some(3),
     sleep_duration_hours |-> sleep,
     bmi |-> Some(24),
     lab_count |-> Some(IF IsNone(hr) THEN 0 ELSE 5),
     signals |-> sig,
     signal_details |-> [n \in LayerNameSet |->
                            IF IsNone(hr) THEN [fallback |-> "no_data"]
                            ELSE [sub_signals |-> "measured"]],
     mantic_summary |-> UnitSummary(sig),
     mantic_raw |-> [friction |-> [m_score |-> m_score], emergence |-> EmptyDict],
     mantic_profile |-> PROFILE_NAME,
     mantic_profile_fallback |-> FALSE,
     friction |-> [m_score |-> m_score, detected |-> FALSE],
     emergence |-> [m_score |-> None, detected |-> FALSE],
     data_source |-> src,
     data_source_note |-> "simulated"]

UnitContexts ==
    { UnitContext(period, sig, src, hr, sleep, m_score) :
        period \in {Some("last_30_days"), None},
        sig \in UnitSignals,
        src \in {"mock", ""},
        hr \in {None, Some(65)},
        sleep \in {Some(4256), Some(7000)},
        m_score \in {None, Some((8 * Scale) \div 10)} }

InitPrivacy ==
    /\ auditConfigured = FALSE
    /\ repoConfigured = FALSE
    /\ llmProvider = "mock"
    /\ InitPipeline
    /\ gate = NoGate
    /\ selection = NoSelection
    /\ callers = NoCallers
    /\ client = NoClient
    /\ call = NoCall
    /\ \E a \in UnitContexts, b \in UnitContexts, m \in PrivacyModes, raw \in BOOLEAN :
        privacy = [a |-> a, b |-> b, privacy_mode |-> m, include_mantic_raw |-> raw,
                   built |-> FALSE, out_a |-> EmptyDict, out_b |-> EmptyDict]

BuildContext ==
    /\ DOMAIN privacy.a # {}
    /\ ~privacy.built
    /\ privacy' = [privacy EXCEPT
            !.built = TRUE,
            !.out_a = build_llm_data_context(privacy.a, privacy.privacy_mode,
                                             privacy.include_mantic_raw),
            !.out_b = build_llm_data_context(privacy.b, privacy.privacy_mode,
                                             privacy.include_mantic_raw)]
    /\ UNCHANGED <<config, pipeline, gate, selection, callers, client, call>>

NextPrivacy == BuildContext

SpecPrivacy == InitPrivacy /\ [][NextPrivacy]_vars

---------------------------------------------------------------------------
(* ScaffoldEngine.select called on its own *)

\* Registries: the three health scaffolds; the neutral one alone; growth registered
\* first and risk absent; scaffolds of other tools with intent signals (with and
\* without the default scaffold); the health scaffolds registered after another
\* tool's scaffold; the empty registry
SleepScaffold == Scaffold("sleep_review", {"sleep_tool"}, {"sleep"},
                          {<<"review", "my", "sleep">>})
DietScaffold == Scaffold("diet_review", {"diet_tool"}, {"diet", "sleep"},
                         {<<"review", "diet">>})
SelectRegistries ==
    { Registry,
      << Registry[1] >>,
      << Registry[3], Registry[1] >>,
      << SleepScaffold, DietScaffold >>,
      << DietScaffold, SleepScaffold, Registry[1] >>,
      << DietScaffold, Registry[1], Registry[3], Registry[2] >>,
      << >> }

SelectToolNames == {"personal_health_signal", "other_tool"}
SelectUserInputs ==
    { {}, {"last_30_days"}, {"sleep"}, {"review", "sleep"}, {"diet", "sleep"} }
SelectCallerIds == { None, Some(""), Some("personal_health_signal.risk"),
                     Some("sleep_review"), Some("missing") }

\* _make_mantic_summary of the routing tests, and summaries with keys missing
SelectSummaries ==
    { [friction_level |-> f, emergence_window |-> e, coherence |-> c] :
        f \in {"low", "high"}, e \in BOOLEAN,
        c \in {None, Some((6 * Scale) \div 10), Some((6 * Scale) \div 10 - 1),
               Some((85 * Scale) \div 100)} }
    \cup { [friction_level |-> f] : f \in {"low", "high"} }
    \cup { [emergence_window |-> TRUE], [coherence |-> Some(Scale \div 2)] }

SelectToolContexts ==
    { EmptyDict, [something_else |-> PyStr("x")],
      [mantic_summary |-> PyStr("not_a_dict")], [mantic_summary |-> PyNone] }
    \cup { [mantic_summary |-> PyDict(ms)] : ms \in SelectSummaries }

InitSelect ==
    /\ auditConfigured = FALSE
    /\ repoConfigured = FALSE
    /\ llmProvider = "mock"
    /\ InitPipeline
    /\ gate = NoGate
    /\ privacy = NoPrivacy
    /\ callers = NoCallers
    /\ client = NoClient
    /\ call = NoCall
    /\ \E r \in SelectRegistries, t \in SelectToolNames, u \in SelectUserInputs,
          c \in SelectCallerIds, tc \in SelectToolContexts :
        selection = [registry |-> r, tool_name |-> t, user_input |-> u,
                     caller_scaffold_id |-> c, tool_context |-> tc,
                     done |-> FALSE, result |-> None]

\* One call of select; result None stands for ScaffoldNotFoundError
Select ==
    /\ selection.tool_name # ""
    /\ ~selection.done
    /\ selection' = [selection EXCEPT
            !.done = TRUE,
            !.result = select(selection.registry, selection.tool_name,
                              selection.user_input, selection.caller_scaffold_id,
                              selection.tool_context)]
    /\ UNCHANGED <<config, pipeline, gate, privacy, callers, client, call>>

NextSelect == Select

SpecSelect == InitSelect /\ [][NextSelect]_vars

---------------------------------------------------------------------------
(* _get_mantic_profiles called by concurrent requests of one event loop. A coroutine
   runs alone between two awaits: the test of the cache up to the await of
   list_profiles is one step, the assignment after the await up to the return another. *)

MaxCallers == 3
CallerIds == 1..MaxCallers

\* at: "idle" (not called yet), "awaiting" (inside await list_profiles), "returned";
\* got: the set the call returned; used: the profile the request then resolved
NoCaller == [at |-> "idle", got |-> {}, used |-> ""]

InitCallers ==
    /\ auditConfigured = FALSE
    /\ repoConfigured = FALSE
    /\ llmProvider = "mock"
    /\ InitPipeline
    /\ gate = NoGate
    /\ privacy = NoPrivacy
    /\ selection = NoSelection
    /\ client = NoClient
    /\ call = NoCall
    /\ callers = [writes |-> 0, failures |-> 0, proc |-> [i \in CallerIds |-> NoCaller]]

\* if _mantic_profiles_cache is not None: return _mantic_profiles_cache
CallerReadsCache(i) ==
    /\ DOMAIN callers # {}
    /\ callers.proc[i].at = "idle"
    /\ ~IsNone(cache)
    /\ callers' = [callers EXCEPT !.proc[i] =
            [at |-> "returned", got |-> Val(cache), used |-> ResolveProfile(Val(cache)).used]]
    /\ UNCHANGED <<config, invocation, cache, gate, privacy, selection, client, call>>

\* the cache is None: the coroutine suspends in await mantic_client.list_profiles()
CallerAwaitsList(i) ==
    /\ DOMAIN callers # {}
    /\ callers.proc[i].at = "idle"
    /\ IsNone(cache)
    /\ callers' = [callers EXCEPT !.proc[i].at = "awaiting"]
    /\ UNCHANGED <<config, invocation, cache, gate, privacy, selection, client, call>>

\* list_profiles answers: the cache is assigned and returned
CallerListAnswers(i) ==
    /\ DOMAIN callers # {}
    /\ callers.proc[i].at = "awaiting"
    /\ \E names \in ProfileAnswers :
        /\ cache' = Some(names)
        /\ callers' = [callers EXCEPT
                !.writes = @ + 1,
                !.proc[i] = [at |-> "returned", got |-> names,
                             used |-> ResolveProfile(names).used]]
    /\ UNCHANGED <<config, invocation, gate, privacy, selection, client, call>>

\* list_profiles raises: the cache is assigned set() and returned
CallerListRaises(i) ==
    /\ DOMAIN callers # {}
    /\ callers.proc[i].at = "awaiting"
    /\ cache' = Some({})
    /\ callers' = [callers EXCEPT
            !.writes = @ + 1,
            !.failures = @ + 1,
            !.proc[i] = [at |-> "returned", got |-> {}, used |-> ResolveProfile({}).used]]
    /\ UNCHANGED <<config, invocation, gate, privacy, selection, client, call>>

NextCallers ==
    \E i \in CallerIds :
        \/ CallerReadsCache(i)
        \/ CallerAwaitsList(i)
        \/ CallerListAnswers(i)
        \/ CallerListRaises(i)

SpecCallers == InitCallers /\ [][NextCallers]_vars

---------------------------------------------------------------------------
(* ManticMCPClient._call_tool called on its own *)

ClientTools == {"mantic_detect_friction", "list_domain_profiles"}

\* What the transport raises
TransportErrors == {"ConnectionError", "TimeoutError", "ToolError"}

\* The texts with the kind of payload each is: "ok", "bad_envelope" (an object that is
\* not a detection envelope), "no_m_score" (an envelope whose result has no m_score),
\* "status_error", "non_object", "non_json"
PayloadTexts ==
    { [text |-> OkText, class |-> "ok"],
      [text |-> OkNoResultText, class |-> "bad_envelope"],
      [text |-> OkResultListText, class |-> "bad_envelope"],
      [text |-> OkNoScoreText, class |-> "no_m_score"],
      [text |-> ProfilesText, class |-> "bad_envelope"],
      [text |-> ErrorText, class |-> "status_error"],
      [text |-> ErrorHugeCodeText, class |-> "status_error"],
      [text |-> "[1, 2]", class |-> "non_object"],
      [text |-> "null", class |-> "non_object"],
      [text |-> "42", class |-> "non_object"],
      [text |-> "\"ok\"", class |-> "non_object"],
      [text |-> DeepArrayText, class |-> "non_object"],
      [text |-> NotJsonText, class |-> "non_json"],
      [text |-> "{\"status\": ", class |-> "non_json"] }

\* Payloads that arrive already parsed
PayloadObjects ==
    { [data |-> PyDict(OkObject), class |-> "ok"],
      [data |-> PyDict(OkNoResultObject), class |-> "bad_envelope"],
      [data |-> PyDict(OkNoScoreObject), class |-> "no_m_score"],
      [data |-> PyDict(ProfilesObject), class |-> "bad_envelope"],
      [data |-> PyDict(ErrorObject), class |-> "status_error"],
      [data |-> PyList(<<PyNum(1)>>), class |-> "non_object"],
      [data |-> PyNum(42), class |-> "non_object"] }

\* _TextBlock of the tests, a json block, a block with nothing in it
TextBlock(text) == PyObj([type |-> PyStr("text"), text |-> PyStr(text)])
JsonBlock(data) == PyObj([type |-> PyStr("json"), data |-> data])
BareBlock == PyObj([type |-> PyStr("image")])

Answer(result, class) == [raises |-> "", result |-> result, class |-> class]

\* What call_tool can do: raise, return nothing, return something with no payload in it,
\* or return a payload as a raw string, in a text block, in a dict block, after a block
\* without payload, as a single block, as a parsed dict, in a json block; the payload
\* of a list is that of its first block that has one, the text of a text block included
TransportOutcomes ==
    { [raises |-> e, result |-> PyNone, class |-> "transport"] : e \in TransportErrors }
    \cup { Answer(r, "empty") : r \in {PyNone, PyList(<<>>), PyStr(""), PyDict(EmptyDict)} }
    \cup { Answer(r, "unusable") :
             r \in {PyNum(42), BareBlock, PyList(<<BareBlock>>),
                    PyList(<<PyDict([other |-> PyNum(1)])>>),
                    PyList(<<PyObj([type |-> PyStr("text"), text |-> PyNone])>>)} }
    \cup { Answer(PyList(<<PyObj([type |-> PyStr("text"), text |-> PyBytes(OkText)])>>),
                  "non_object") }
    \cup UNION { { Answer(PyStr(p.text), p.class),
                   Answer(PyList(<<TextBlock(p.text)>>), p.class),
                   Answer(PyList(<<PyDict([text |-> PyStr(p.text)])>>), p.class),
                   Answer(PyList(<<BareBlock, TextBlock(p.text)>>), p.class),
                   Answer(PyList(<<PyStr(p.text)>>), p.class),
                   Answer(TextBlock(p.text), p.class) } : p \in PayloadTexts }
    \cup UNION { { Answer(p.data, p.class),
                   Answer(PyList(<<JsonBlock(p.data)>>), p.class),
                   Answer(PyList(<<PyDict([data |-> p.data])>>), p.class),
                   Answer(PyList(<<BareBlock, JsonBlock(p.data)>>), p.class),
                   Answer(PyList(<<TextBlock(NotJsonText), JsonBlock(p.data)>>), "non_json"),
                   Answer(JsonBlock(p.data), p.class) } : p \in PayloadObjects }

InitClient ==
    /\ auditConfigured = FALSE
    /\ repoConfigured = FALSE
    /\ llmProvider = "mock"
    /\ InitPipeline
    /\ gate = NoGate
    /\ privacy = NoPrivacy
    /\ selection = NoSelection
    /\ callers = NoCallers
    /\ call = NoCall
    /\ \E t \in ClientTools, o \in TransportOutcomes :
        client = [tool_name |-> t, transport |-> o, done |-> FALSE,
                  outcome |-> [kind |-> "none", error |-> "", value |-> PyNone]]

\* One call of _call_tool
CallTool ==
    /\ DOMAIN client # {}
    /\ ~client.done
    /\ client' = [client EXCEPT !.done = TRUE,
                                !.outcome = _call_tool(client.tool_name, client.transport)]
    /\ UNCHANGED <<config, pipeline, gate, privacy, selection, callers, call>>

NextClient == CallTool

SpecClient == InitClient /\ [][NextClient]_vars

---------------------------------------------------------------------------
(* _local_mantic_summary_from_signals called on its own *)

\* Scores around the limits: the detection threshold and its neighbours, spreads of
\* exactly 0.25, 0.3 and 0.5 above it, a score that is no multiple of 0.0001
SummaryScores ==
    { 0, _DETECTION_THRESHOLD_FALLBACK - 1, _DETECTION_THRESHOLD_FALLBACK,
      _DETECTION_THRESHOLD_FALLBACK + 1,
      _DETECTION_THRESHOLD_FALLBACK + Scale \div 4, 806257,
      _DETECTION_THRESHOLD_FALLBACK + (3 * Scale) \div 10,
      _DETECTION_THRESHOLD_FALLBACK + Scale \div 2, Scale }

SummaryInputs ==
    { <<a, b, c, d>> : a \in SummaryScores, b \in SummaryScores,
                       c \in SummaryScores, d \in SummaryScores }
    \cup { <<>>, <<Scale \div 2, Scale>> }

InitSummary ==
    /\ auditConfigured = FALSE
    /\ repoConfigured = FALSE
    /\ llmProvider = "mock"
    /\ InitPipeline
    /\ gate = NoGate
    /\ privacy = NoPrivacy
    /\ selection = NoSelection
    /\ callers = NoCallers
    /\ client = NoClient
    /\ \E lv \in SummaryInputs :
        call = [fn |-> "_local_mantic_summary_from_signals", layer_values |-> lv,
                done |-> FALSE, result |-> EmptyDict]

LocalSummary ==
    /\ DOMAIN call # {}
    /\ call.fn = "_local_mantic_summary_from_signals"
    /\ ~call.done
    /\ call' = [call EXCEPT !.done = TRUE,
                            !.result = _local_mantic_summary_from_signals(call.layer_values)]
    /\ UNCHANGED <<config, pipeline, gate, privacy, selection, callers, client>>

NextSummary == LocalSummary

SpecSummary == InitSummary /\ [][NextSummary]_vars

---------------------------------------------------------------------------
(* core/llm/response.py: guardrail enforcement on the generated text *)

\* A text is a sequence of tokens: words, the sentence terminators, the line break
\* and the fixed texts the enforcer writes. Words on one line are one space apart.
NL == "\n"
Terminators == {".", "!", "?"}
SentenceBoundaries == Terminators \cup {NL}
REDACTION_MARKER == "[Removed: contains prohibited health guidance]"

\* str.lower() on one token
Lower(tok) ==
    CASE tok = "You" -> "you"
      [] tok = "Not" -> "not"
      [] tok = "MEDICAL" -> "medical"
      [] tok = "If" -> "if"
      [] tok = "I" -> "i"
      [] OTHER -> tok
LowerText(text) == [i \in 1..Len(text) |-> Lower(text[i])]

\* `phrase in text`: the words of the phrase, in order, next to each other on one line
Contains(text, phrase) ==
    \E i \in 0..(Len(text) - Len(phrase)) :
        \A j \in 1..Len(phrase) : text[i + j] = phrase[j]

prohibited_indicators ==
    << [action |-> "making medical diagnoses",
        patterns |-> << <<"you", "have", "been", "diagnosed">>,
                        <<"you", "are", "suffering", "from">>,
                        <<"this", "is", "a", "sign", "of">>,
                        <<"you", "have", "a", "condition">> >>],
       [action |-> "prescribing treatments",
        patterns |-> << <<"take", "this", "medication">>,
                        <<"stop", "taking", "your", "medication">>,
                        <<"i", "prescribe">>,
                        <<"you", "should", "take">> >>],
       [action |-> "providing specific dietary plans",
        patterns |-> << <<"eat", "exactly">>,
                        <<"your", "daily", "caloric", "intake", "should", "be">>,
                        <<"follow", "this", "meal", "plan">> >>],
       [action |-> "making disease predictions",
        patterns |-> << <<"you", "will", "develop">>,
                        <<"you", "are", "at", "high", "risk", "of", "dying">>,
                        <<"this", "will", "lead", "to">>,
                        <<"guaranteed", "to", "cure">> >>] >>

\* One guardrail flag: its prefix, the action it names and the trigger or pattern
GuardrailFlag(kind, action, text) == [kind |-> kind, action |-> action, text |-> text]

\* The patterns of one action found in the lowered content, in the order of the table
PatternFlags(entry, content_lower) ==
    LET found == SelectSeq(entry.patterns, LAMBDA p : Contains(content_lower, p))
    IN [i \in 1..Len(found) |->
            GuardrailFlag("prohibited_pattern_detected", entry.action, found[i])]

\* A trigger is flagged when at least 60% of its words occur in the content
TriggerMatches(trigger, content_lower) ==
    LET trigger_keywords == LowerText(trigger)
        matches == Cardinality({i \in 1..Len(trigger_keywords) :
                        \E k \in 1..Len(content_lower) :
                            content_lower[k] = trigger_keywords[i]})
    IN 10 * matches >= 6 * Len(trigger_keywords)

check_guardrails(content, scaffold) ==
    LET content_lower == LowerText(content)
        triggered == SelectSeq(scaffold.escalation_triggers,
                               LAMBDA t : TriggerMatches(t, content_lower))
        escalations == [i \in 1..Len(triggered) |->
                            GuardrailFlag("escalation_trigger_detected", "", triggered[i])]
        flags == escalations
                 \o PatternFlags(prohibited_indicators[1], content_lower)
                 \o PatternFlags(prohibited_indicators[2], content_lower)
                 \o PatternFlags(prohibited_indicators[3], content_lower)
                 \o PatternFlags(prohibited_indicators[4], content_lower)
    IN [passed |-> ~ \E i \in 1..Len(flags) : flags[i].kind = "prohibited_pattern_detected",
        flags |-> flags]

\* The last token of the sentence that starts at i: the run up to the next boundary
RunEnd(text, i) ==
    LET stops == {k \in i..Len(text) : text[k] \in SentenceBoundaries}
    IN IF stops = {} THEN Len(text)
       ELSE (CHOOSE k \in stops : \A m \in stops : k <= m) - 1

\* re.sub of [^.!?\n]* phrase [^.!?\n]* [.!?]? with the marker, ignoring case: every
\* run that holds the phrase is replaced together with the terminator that closes it
RECURSIVE RedactFrom(_, _, _)
RedactFrom(text, phrase, i) ==
    IF i > Len(text) THEN <<>>
    ELSE LET e == RunEnd(text, i)
             run == SubSeq(text, i, e)
             closed == e < Len(text) /\ text[e + 1] \in Terminators
         IN IF Contains(LowerText(run), phrase)
            THEN <<REDACTION_MARKER>>
                 \o RedactFrom(text, phrase, IF closed THEN e + 2 ELSE e + 1)
            ELSE run \o (IF e < Len(text) THEN <<text[e + 1]>> ELSE <<>>)
                 \o RedactFrom(text, phrase, e + 2)

\* Variant of RedactPhrases: the detected phrases are not redacted
RedactNothing(sanitized, prohibited_phrases, k) == sanitized

RECURSIVE RedactPhrases(_, _, _)
RedactPhrases(sanitized, prohibited_phrases, k) ==
    IF k > Len(prohibited_phrases) THEN sanitized
    ELSE RedactPhrases(RedactFrom(sanitized, prohibited_phrases[k], 1),
                       prohibited_phrases, k + 1)

sanitize_content(content, guardrail_check) ==
    LET detected == SelectSeq(guardrail_check.flags,
                              LAMBDA f : f.kind = "prohibited_pattern_detected")
        prohibited_phrases == [i \in 1..Len(detected) |-> detected[i].text]
    IN IF guardrail_check.passed THEN content
       ELSE IF prohibited_phrases = <<>> THEN content
       ELSE RedactPhrases(content, prohibited_phrases, 1)

\* str.strip() on a sequence of tokens
RECURSIVE Strip(_)
Strip(d) ==
    IF d = <<>> THEN d
    ELSE IF Head(d) = NL THEN Strip(Tail(d))
    ELSE IF d[Len(d)] = NL THEN Strip(SubSeq(d, 1, Len(d) - 1))
    ELSE d

\* " ".join(s.lower().split())
_norm(s) == LowerText(SelectSeq(s, LAMBDA tok : tok # NL))

\* "\n".join(f"- {d}" for d in missing), from the k-th on
RECURSIVE FooterLines(_, _)
FooterLines(missing, k) ==
    IF k > Len(missing) THEN <<>>
    ELSE (IF k > 1 THEN <<NL>> ELSE <<>>) \o <<"-">> \o missing[k]
         \o FooterLines(missing, k + 1)

\* Variant of MissingDisclaimers: the first disclaimer is never looked for
MissingAfterFirst(disclaimers, content_norm) ==
    SelectSeq(Tail(disclaimers), LAMBDA d : ~Contains(content_norm, _norm(d)))

MissingDisclaimers(disclaimers, content_norm) ==
    SelectSeq(disclaimers, LAMBDA d : ~Contains(content_norm, _norm(d)))

enforce_disclaimers(content, scaffold) ==
    LET stripped == [i \in 1..Len(scaffold.disclaimers) |-> Strip(scaffold.disclaimers[i])]
        disclaimers == SelectSeq(stripped, LAMBDA d : d # <<>>)
        missing == MissingDisclaimers(disclaimers, _norm(content))
        footer == <<NL, NL, "---", NL, "Disclaimers:", NL>> \o FooterLines(missing, 1)
    IN IF disclaimers = <<>> \/ missing = <<>>
       THEN [content |-> content, flags |-> <<>>]
       ELSE [content |-> content \o footer,
             flags |-> [i \in 1..Len(missing) |->
                            GuardrailFlag("disclaimer_appended", "", missing[i])]]

---------------------------------------------------------------------------
(* core/llm/client.py: what InnerLLMClient.invoke does with the provider's text *)

\* The enforcer: guardrail check, redaction, disclaimer enforcement
EnforceGuardrails(provider_content, scaffold) ==
    LET guardrail_check == check_guardrails(provider_content, scaffold)
        sanitized == sanitize_content(provider_content, guardrail_check)
        enforced == enforce_disclaimers(sanitized, scaffold)
    IN [guardrail_check |-> guardrail_check,
        sanitized |-> sanitized,
        enforced |-> enforced.content,
        content |-> enforced.content,
        disclaimer_flags |-> enforced.flags]

\* The provenance footer appended when the data context names a data source
ProvenanceFooter(content, data_ctx) ==
    IF DOMAIN data_ctx = {} THEN <<>>
    ELSE IF data_ctx.data_source = "" THEN <<>>
    ELSE IF \E k \in 1..Len(content) : content[k] = "Data source:" THEN <<>>
    ELSE <<NL, NL, "---", NL, "Data source:", data_ctx.data_source>>
         \o (IF data_ctx.data_source_note = "" THEN <<>>
             ELSE <<NL, "Note:", data_ctx.data_source_note>>)

InvokeContent(provider_content, scaffold, data_ctx) ==
    LET e == EnforceGuardrails(provider_content, scaffold)
    IN [e EXCEPT !.content = e.content \o ProvenanceFooter(e.content, data_ctx)]

---------------------------------------------------------------------------
(* InnerLLMClient.invoke's guardrail enforcement on its own *)

NotMedicalAdvice == <<"Not", "medical", "advice", ".">>
ConsultYourDoctor == <<"consult", "your", "doctor", ".">>
IfYouHaveACondition ==
    <<"If", "you", "have", "a", "condition", "consult", "your", "doctor", ".">>

\* The guardrails of the scaffolds: the fixture's; two disclaimers with surrounding
\* line breaks and a blank one; a disclaimer whose wording holds a listed pattern
GuardrailScaffolds ==
    { [id |-> "test_scaffold",
       disclaimers |-> <<NotMedicalAdvice>>,
       escalation_triggers |-> << <<"emergency">> >>],
      [id |-> "two_disclaimers",
       disclaimers |-> <<NotMedicalAdvice, <<NL>>, <<NL>> \o ConsultYourDoctor \o <<NL>> >>,
       escalation_triggers |-> << <<"call", "emergency", "services">> >>],
      [id |-> "condition_disclaimer",
       disclaimers |-> <<IfYouHaveACondition>>,
       escalation_triggers |-> <<>>] }

\* Sentences a provider may write, each with what closes it
ProviderSentences ==
    { <<"rest", "well", ".">>,
      <<"rest", "well", NL>>,
      <<"sleep", "more", "?">>,
      <<"You", "should", "take", "aspirin", ".">>,
      <<"you", "should", "take", "aspirin", NL>>,
      <<"you", "should", NL, "take", "aspirin", "?">>,
      <<"I", "prescribe", "rest", "!">>,
      <<"I", "prescribe", "rest">>,
      <<"this", "is", "an", "emergency", "!">>,
      NotMedicalAdvice,
      <<"not", "MEDICAL", NL, "advice", ".">>,
      IfYouHaveACondition }

MaxSentences == 3

\* The texts of at most n sentences
RECURSIVE TextsOf(_)
TextsOf(n) ==
    IF n = 1 THEN ProviderSentences
    ELSE LET shorter == TextsOf(n - 1)
         IN shorter \cup { a \o b : a \in shorter, b \in ProviderSentences }

ProviderTexts == TextsOf(MaxSentences)

InvokeDataContexts ==
    { EmptyDict, [data_source |-> "mock", data_source_note |-> "simulated"] }

InitEnforce ==
    /\ auditConfigured = FALSE
    /\ repoConfigured = FALSE
    /\ llmProvider = "mock"
    /\ InitPipeline
    /\ gate = NoGate
    /\ privacy = NoPrivacy
    /\ selection = NoSelection
    /\ callers = NoCallers
    /\ client = NoClient
    /\ \E text \in ProviderTexts, sc \in GuardrailScaffolds, dc \in InvokeDataContexts :
        call = [fn |-> "invoke", provider_content |-> text, scaffold |-> sc,
                data_ctx |-> dc, at |-> "generated",
                result |-> EmptyDict, again |-> EmptyDict]

\* client.py 67-90: the provider has returned; check, redact, add disclaimers and footer
InvokeEnforces ==
    /\ DOMAIN call # {}
    /\ call.fn = "invoke"
    /\ call.at = "generated"
    /\ call' = [call EXCEPT !.at = "returned",
                            !.result = InvokeContent(call.provider_content, call.scaffold,
                                                     call.data_ctx)]
    /\ UNCHANGED <<config, pipeline, gate, privacy, selection, callers, client>>

\* The enforcer run once more, on the text it produced
EnforcesAgain ==
    /\ DOMAIN call # {}
    /\ call.fn = "invoke"
    /\ call.at = "returned"
    /\ call' = [call EXCEPT !.at = "enforced_again",
                            !.again = EnforceGuardrails(call.result.enforced, call.scaffold)]
    /\ UNCHANGED <<config, pipeline, gate, privacy, selection, callers, client>>

NextEnforce == InvokeEnforces \/ EnforcesAgain

SpecEnforce == InitEnforce /\ [][NextEnforce]_vars

---------------------------------------------------------------------------
(* translate_health_to_mantic called on its own, on readings out of their usual range *)

\* Readings far below and far above what the formulas expect
OutOfRange == 1000
PctReadings == {0 - 100, 50, 250}

TranslateVitals ==
    { [k \in {"rhr"} |-> Some(v)] : v \in {0 - 40, 65, 300} }
    \cup { [k \in {"spo2"} |-> None] }
    \cup { [rhr |-> Some(r), rhr_trend |-> Some(t), systolic |-> Some(s),
            diastolic |-> Some(d), hrv |-> Some(h), spo2 |-> Some(o)] :
           r \in {0 - 40, 300}, t \in {0 - 5, 10}, s \in {0 - 20, 400},
           d \in {0 - OutOfRange, 80}, h \in {0 - 10, 200}, o \in PctReadings }

TranslateLabs ==
    { EmptyDict, LabsBad,
      ("fasting glucose" :> (0 - OutOfRange)) @@ ("hba1c" :> (0 - 50))
        @@ ("ldl cholesterol" :> (0 - OutOfRange)) @@ ("hdl cholesterol" :> OutOfRange)
        @@ ("triglycerides" :> (0 - OutOfRange)),
      ("fasting glucose" :> OutOfRange) @@ ("hba1c" :> OutOfRange)
        @@ ("ldl cholesterol" :> OutOfRange) @@ ("hdl cholesterol" :> (0 - OutOfRange))
        @@ ("triglycerides" :> OutOfRange),
      ("hdl cholesterol" :> OutOfRange),
      ("triglycerides" :> (0 - OutOfRange)) }

TranslateBiometrics ==
    { EmptyDict, BiometricsBad, [bmi |-> Some(0 - 5), bmi_trend |-> Some(0 - 1)],
      [bmi |-> Some(22), bmi_trend |-> Some(0 - 1)], [bmi |-> Some(OutOfRange), bmi_trend |-> None] }

TranslateActivity ==
    { [k \in {"consistency"} |-> Some(v)] : v \in PctReadings }
    \cup { [k \in {"strain_high"} |-> Some(TRUE)] }
    \cup { [sessions |-> Some(s), consistency |-> Some(c), duration |-> Some(d),
            quality |-> Some(q), recovery |-> Some(r), strain_high |-> Some(h)] :
           s \in {0 - 3, 20}, c \in PctReadings, d \in {0 - 5000, 8000},
           q \in PctReadings, r \in {0 - 200, 500}, h \in BOOLEAN }

TranslatePreventive ==
    { [screenings |-> s, vaccinations |-> v, active_prescriptions |-> Some(n),
       adherence |-> a] :
      s \in {<<>>, <<"current", "overdue">>}, v \in {<<>>, <<"current">>},
      n \in {0 - 1, 0, 2}, a \in {None, Some(0 - 100), Some(400)} }
    \cup { [k \in {"active_prescriptions"} |-> Some(1)] }

\* One section at a time out of range, the others missing; and all of them together
TranslateInputs ==
    { Bundle(v, EmptyDict, EmptyDict, EmptyDict, EmptyDict) : v \in TranslateVitals }
    \cup { Bundle(EmptyDict, l, EmptyDict, EmptyDict, b) :
             l \in TranslateLabs, b \in TranslateBiometrics }
    \cup { Bundle(EmptyDict, EmptyDict, a, EmptyDict, EmptyDict) : a \in TranslateActivity }
    \cup { Bundle(EmptyDict, EmptyDict, EmptyDict, p, EmptyDict) : p \in TranslatePreventive }
    \cup { Bundle(v, LabsBad, a, PreventiveBad, BiometricsBad) :
             v \in {VitalsGood(Some(120)), VitalsBad(None)},
             a \in {ActivityBad, [k \in {"consistency"} |-> Some(250)]} }

InitTranslate ==
    /\ auditConfigured = FALSE
    /\ repoConfigured = FALSE
    /\ llmProvider = "mock"
    /\ InitPipeline
    /\ gate = NoGate
    /\ privacy = NoPrivacy
    /\ selection = NoSelection
    /\ callers = NoCallers
    /\ client = NoClient
    /\ \E b \in TranslateInputs :
        call = [fn |-> "translate_health_to_mantic", data |-> b,
                done |-> FALSE, result |-> EmptyDict]

Translate ==
    /\ DOMAIN call # {}
    /\ call.fn = "translate_health_to_mantic"
    /\ ~call.done
    /\ call' = [call EXCEPT !.done = TRUE,
                            !.result = translate_health_to_mantic(call.data)]
    /\ UNCHANGED <<config, pipeline, gate, privacy, selection, callers, client>>

NextTranslate == Translate

SpecTranslate == InitTranslate /\ [][NextTranslate]_vars

---------------------------------------------------------------------------
(* core/scaffold/registry.py and loader.py: loading the scaffold definitions *)

\* ScaffoldRegistry.__init__: _scaffolds in insertion order, _by_tool, _by_tag
EmptyRegistry == [_scaffolds |-> <<>>, _by_tool |-> EmptyDict, _by_tag |-> EmptyDict]

HasId(reg, scaffold_id) ==
    \E i \in 1..Len(reg._scaffolds) : reg._scaffolds[i].id = scaffold_id

\* for key in keys: ids = index.setdefault(key, []); append the id if it is not there
RECURSIVE IndexAdd(_, _, _, _)
IndexAdd(index, keys, scaffold_id, k) ==
    IF k > Len(keys) THEN index
    ELSE LET key == keys[k]
             ids == IF key \in DOMAIN index THEN index[key] ELSE <<>>
             added == IF \E i \in 1..Len(ids) : ids[i] = scaffold_id
                      THEN ids ELSE Append(ids, scaffold_id)
         IN IndexAdd([x \in DOMAIN index \cup {key} |-> IF x = key THEN added ELSE index[x]],
                     keys, scaffold_id, k + 1)

\* ScaffoldRegistry.register: the registry after the call, or ValueError
register(reg, scaffold) ==
    IF HasId(reg, scaffold.id)
    THEN [raised |-> "ValueError", registry |-> reg]
    ELSE [raised |-> "",
          registry |-> [_scaffolds |-> Append(reg._scaffolds, scaffold),
                        _by_tool |-> IndexAdd(reg._by_tool, scaffold.tools, scaffold.id, 1),
                        _by_tag |-> IndexAdd(reg._by_tag, scaffold.tags, scaffold.id, 1)]]

\* ScaffoldRegistry.get, find_by_tool, find_by_tag
registry_get(reg, scaffold_id) ==
    IF HasId(reg, scaffold_id)
    THEN Some(CHOOSE s \in {reg._scaffolds[i] : i \in 1..Len(reg._scaffolds)} :
                s.id = scaffold_id)
    ELSE None
find_by(reg, index, key) ==
    LET ids == IF key \in DOMAIN index THEN index[key] ELSE <<>>
    IN [i \in 1..Len(ids) |-> Val(registry_get(reg, ids[i]))]

\* A file that load_scaffold_file cannot parse
UnreadableFile == [id |-> "", display_name |-> "unreadable", tools |-> <<>>, tags |-> <<>>]

\* load_scaffold_directory from the k-th file of the sorted paths on: every exception
\* of load_scaffold_file and of register is logged and the loop goes on
RECURSIVE LoadFrom(_, _, _, _)
LoadFrom(files, reg, count, k) ==
    IF k > Len(files) THEN [raised |-> "", count |-> count, registry |-> reg]
    ELSE IF files[k] = UnreadableFile THEN LoadFrom(files, reg, count, k + 1)
    ELSE LET r == register(reg, files[k])
         IN IF r.raised # "" THEN LoadFrom(files, reg, count, k + 1)
            ELSE LoadFrom(files, r.registry, count + 1, k + 1)

load_scaffold_directory(files, reg) == LoadFrom(files, reg, 0, 1)

---------------------------------------------------------------------------
(* load_scaffold_directory called on its own *)

ScaffoldFiles ==
    { [id |-> i, display_name |-> n, tools |-> t, tags |-> g] :
        i \in {"health_a", "health_b"}, n \in {"first", "second"},
        t \in {<<"tool_1">>, <<"tool_2">>}, g \in {<<"tag_x">>, <<"tag_x", "tag_y">>} }
    \cup {UnreadableFile}

MaxFiles == 3

\* The directories of at most n files, in the order of their sorted paths
RECURSIVE DirectoriesOf(_)
DirectoriesOf(n) ==
    IF n = 0 THEN {<<>>}
    ELSE LET shorter == DirectoriesOf(n - 1)
         IN shorter \cup { Append(d, f) : d \in shorter, f \in ScaffoldFiles }

InitLoad ==
    /\ auditConfigured = FALSE
    /\ repoConfigured = FALSE
    /\ llmProvider = "mock"
    /\ InitPipeline
    /\ gate = NoGate
    /\ privacy = NoPrivacy
    /\ selection = NoSelection
    /\ callers = NoCallers
    /\ client = NoClient
    /\ \E d \in DirectoriesOf(MaxFiles) :
        call = [fn |-> "load_scaffold_directory", files |-> d,
                done |-> FALSE, result |-> EmptyDict]

LoadDirectory ==
    /\ DOMAIN call # {}
    /\ call.fn = "load_scaffold_directory"
    /\ ~call.done
    /\ call' = [call EXCEPT !.done = TRUE,
                            !.result = load_scaffold_directory(call.files, EmptyRegistry)]
    /\ UNCHANGED <<config, pipeline, gate, privacy, selection, callers, client>>

NextLoad == LoadDirectory

SpecLoad == InitLoad /\ [][NextLoad]_vars

---------------------------------------------------------------------------
(* Properties *)

Has(s, x) == \E i \in 1..Len(s) : s[i] = x
Count(s, x) == Cardinality({i \in 1..Len(s) : s[i] = x})

RemoteCalls == {"list_profiles", "detect_friction", "detect_emergence", "llm_invoke"}
NoRemoteCall == \A i \in 1..Len(calls) : calls[i] \notin RemoteCalls
Gathered == signals.layer_values # <<>>
GateEvaluated == Has(calls, "gate")
AllLow == "all_signals_below_0.3"
HighBp == "systolic_over_180"

\* C1: a detection call or the generation call happens only after the safety gate was
\* evaluated in the same invocation and returned no trigger; when the gate returns a
\* trigger none of these calls happens, the invocation ends at the gate, and the text
\* it returns is the deterministic escalation response built from the triggers and the
\* signal snapshot (the only other ending is the AttributeError of the audit call).
C1_GateBeforeRemoteCalls ==
    /\ \A i \in 1..Len(calls) :
          calls[i] \in RemoteCalls =>
              /\ \E j \in 1..(i - 1) : calls[j] = "gate"
              /\ triggers = <<>>
    /\ triggers # <<>> =>
          /\ NoRemoteCall
          /\ pc = "done"
          /\ outcome.kind = "returned" =>
                outcome.content = [kind |-> "escalation", triggers |-> triggers,
                                   signals |-> SignalSnapshot(signals.layer_values),
                                   disclaimer |-> TRUE]
          /\ outcome.kind # "returned" =>
                auditConfigured /\ outcome.kind = "raised" /\ outcome.error = "AttributeError"

C1_Witness ==
    /\ pc = "done"
    /\ triggers = <<HighBp>>
    /\ GateEvaluated
    /\ outcome.kind = "returned"
    /\ outcome.content.kind = "escalation"
    /\ NoRemoteCall

\* C2: _detect_escalation_triggers reports all_signals_below_0.3 if and only if all
\* four values are below 0.3 and no layer carries a fallback marker in its details.
C2_AllLowIffRealLow ==
    ~IsNone(gate.result) =>
        (Has(Val(gate.result), AllLow)
            <=> /\ \A i \in 1..4 : gate.layer_values[i] < LowSignalThreshold
                /\ \A n \in LayerNameSet : ~HasFallback(gate.signal_details[n]))

\* C3: in the pipeline, a request in which some layer's details carry a fallback marker
\* never fires all_signals_below_0.3; a bundle with every section absent yields the four
\* fallback scores, each tagged with a reason, passes the gate without a trigger and goes
\* on to the detection calls and the generation call.
AllAbsent == \A k \in DOMAIN bundle : IsEmptyDict(bundle[k])

C3_FallbackNeverAllLow ==
    Gathered =>
        /\ (\E n \in LayerNameSet : HasFallback(signals.details[n])) =>
              /\ ~Has(triggers, AllLow)
              /\ ~Has(_detect_escalation_triggers(signals.layer_values, bundle.vitals), AllLow)
        /\ AllAbsent =>
              /\ signals.layer_values = <<FALLBACK_NO_DATA, FALLBACK_NO_LABS,
                                          FALLBACK_NO_DATA, FALLBACK_PARTIAL_DATA>>
              /\ \A n \in LayerNameSet : HasFallback(signals.details[n])
              /\ triggers = <<>>
              /\ GateEvaluated => pc \in {"profiles", "friction", "emergence", "generate",
                                          "finish", "done"}
              /\ pc = "done" => Has(calls, "detect_friction") /\ Has(calls, "llm_invoke")

C3_Witness ==
    /\ Gathered
    /\ AllAbsent
    /\ pc = "done"
    /\ triggers = <<>>
    /\ Has(calls, "detect_emergence")
    /\ outcome.kind = "returned"
    /\ outcome.content.kind = "generated"

\* C4: systolic_over_180 fires exactly when the vitals carry a systolic average strictly
\* above 180, whatever the four signal values are and whether or not the all-low trigger
\* fires; a trigger of either kind ends the invocation at the gate.
SystolicOf(vitals_data) == Get(vitals_data, "systolic")
Over180(vitals_data) ==
    ~IsNone(SystolicOf(vitals_data)) /\ Val(SystolicOf(vitals_data)) > 180

C4_SystolicTrigger ==
    /\ GateEvaluated =>
          /\ Has(triggers, HighBp) <=> Over180(bundle.vitals)
          /\ triggers # <<>> => pc = "done" /\ NoRemoteCall
    /\ Gathered =>
          \A vd \in GateVitals :
              LET t == _detect_escalation_triggers(signals.layer_values, vd)
              IN /\ Has(t, HighBp) <=> Over180(vd)
                 /\ Has(t, AllLow)
                      <=> Has(_detect_escalation_triggers(signals.layer_values, EmptyDict), AllLow)

C4_Witness ==
    /\ GateEvaluated
    /\ SystolicOf(bundle.vitals) = Some(181)
    /\ triggers = <<HighBp>>
    /\ pc = "done"

DetectionFailed == mantic.failed \cap {"detect_friction", "detect_emergence"} # {}
Degraded ==
    /\ mantic.summary = _local_mantic_summary_from_signals(signals.layer_values)
    /\ "note" \in DOMAIN mantic.summary
    /\ mantic.summary.note = "mantic_unavailable"
    /\ mantic.profile_used = "unavailable"
ReturnedGenerated == outcome.kind = "returned" /\ outcome.content.kind = "generated"

StrictKeys == {"period", "signals", "mantic", "provenance"}
StandardKeys ==
    StrictKeys \cup {"resting_heart_rate_bpm", "blood_pressure", "hrv_ms",
                     "sleep_duration_hours", "exercise_sessions_per_week", "bmi", "lab_count"}
ProvenanceKeys == {"data_source", "data_source_note"}

\* What a strict output may hold of a full context, field by field
StrictImage(out, full) ==
    /\ DOMAIN out = StrictKeys
    /\ out.period = full.period
    /\ DOMAIN out.signals = DOMAIN full.signals
    /\ \A n \in DOMAIN out.signals :
          /\ out.signals[n] % (Scale \div 10000) = 0
          /\ 2 * Abs(out.signals[n] - full.signals[n]) <= Scale \div 10000
    /\ out.mantic = full.mantic_summary
    /\ DOMAIN out.provenance = {k \in ProvenanceKeys : full[k] # ""}
    /\ \A k \in DOMAIN out.provenance : out.provenance[k] = full[k]

AgreeOnStrictFields(a, b) ==
    /\ a.period = b.period
    /\ a.signals = b.signals
    /\ a.mantic_summary = b.mantic_summary
    /\ \A k \in ProvenanceKeys : a[k] = b[k]

\* C6: in strict mode build_llm_data_context returns only period, the signal scores
\* rounded to four decimals, the detection summary and the non-empty provenance fields;
\* two full contexts that agree on these give the same strict output whatever their raw
\* vitals, lab count, signal details, friction/emergence blocks and raw detector output.
C6_StrictOutputOnly ==
    (privacy.built /\ privacy.privacy_mode = "strict") =>
        /\ StrictImage(privacy.out_a, privacy.a)
        /\ StrictImage(privacy.out_b, privacy.b)
        /\ AgreeOnStrictFields(privacy.a, privacy.b) => privacy.out_a = privacy.out_b

C6_Witness ==
    /\ privacy.built
    /\ privacy.privacy_mode = "strict"
    /\ AgreeOnStrictFields(privacy.a, privacy.b)
    /\ privacy.a.resting_heart_rate # privacy.b.resting_heart_rate
    /\ privacy.a.mantic_raw # privacy.b.mantic_raw
    /\ privacy.a.data_source = ""
    /\ privacy.a.signals # privacy.out_a.signals
    /\ privacy.out_a = privacy.out_b

PromptBuilt == DOMAIN ctx.prompt # {}

\* C7: the context given to the generation call holds mantic_raw only when the effective
\* mode is explicit and the caller's raw-inclusion flag is true; in explicit mode with the
\* flag false it is the full context with exactly mantic_raw removed; and the effective
\* flag is false whenever the effective mode is strict, whatever the caller passed.
C7_RawOnlyExplicitFlag ==
    /\ eff.privacy_mode = "strict" => ~eff.include_mantic_raw
    /\ PromptBuilt =>
          /\ "mantic_raw" \in DOMAIN ctx.full
          /\ "mantic_raw" \in DOMAIN ctx.prompt
                <=> (eff.privacy_mode = "explicit" /\ req.include_mantic_raw)
          /\ (eff.privacy_mode = "explicit" /\ ~req.include_mantic_raw) =>
                /\ DOMAIN ctx.prompt = DOMAIN ctx.full \ {"mantic_raw"}
                /\ \A k \in DOMAIN ctx.prompt : ctx.prompt[k] = ctx.full[k]
          /\ (eff.privacy_mode = "explicit" /\ req.include_mantic_raw) =>
                ctx.prompt = ctx.full

C7_Witness ==
    /\ PromptBuilt
    /\ ctx.generated
    /\ eff.privacy_mode = "explicit"
    /\ ~req.include_mantic_raw
    /\ DOMAIN ctx.full \ DOMAIN ctx.prompt = {"mantic_raw"}
    /\ DOMAIN ctx.full.mantic_raw.friction # {}

EffectiveMode(requested) == IF requested \in {"None", ""} THEN "strict" ELSE requested
FullOnlyKeys == {"signal_details", "mantic_raw", "friction", "emergence", "mantic_summary",
                 "resting_heart_rate", "blood_pressure_systolic", "mantic_profile"}

\* C8: the context rendered into the prompt and given to the generation call is the
\* minimized context of the request's effective mode, which is the mode the caller asked
\* for and strict when the caller gave none: four fields in strict mode, those four and
\* the seven friendly metrics in standard mode, and in neither of the two a field that
\* only the full context has. A mode value outside the three is rejected before any work.
C8_ModeNeverUpgraded ==
    /\ pc \notin {"idle", "done"} =>
          eff.privacy_mode \in PrivacyModes /\ eff.privacy_mode = EffectiveMode(req.privacy_mode)
    /\ (pc # "idle" /\ EffectiveMode(req.privacy_mode) \notin PrivacyModes) =>
          /\ pc = "done"
          /\ calls = <<>>
          /\ outcome = Raised("ValueError")
    /\ Has(calls, "llm_invoke") => PromptBuilt
    /\ PromptBuilt =>
          /\ eff.privacy_mode = EffectiveMode(req.privacy_mode)
          /\ ctx.prompt = ctx.llm
          /\ eff.privacy_mode = "strict" =>
                DOMAIN ctx.prompt = StrictKeys /\ StrictImage(ctx.prompt, ctx.full)
          /\ eff.privacy_mode = "standard" =>
                /\ DOMAIN ctx.prompt = StandardKeys
                /\ DOMAIN ctx.prompt.signals = LayerNameSet
          /\ eff.privacy_mode \in {"strict", "standard"} =>
                /\ DOMAIN ctx.prompt \cap FullOnlyKeys = {}
                /\ DOMAIN ctx.prompt.mantic = DOMAIN ctx.full.mantic_summary

C8_Witness ==
    /\ ctx.generated
    /\ Has(calls, "llm_invoke")
    /\ req.privacy_mode = "None"
    /\ req.include_mantic_raw
    /\ DOMAIN ctx.prompt = StrictKeys
    /\ "signal_details" \in DOMAIN ctx.full

\* C9: a request with store_mode 'none' never calls save_snapshot, on either path; with
\* storage configured and store_mode 'encrypted' or omitted, save_snapshot is called at
\* most once per request, and only in a request that returns text.
C9_SaveOnlyWhenReturning ==
    /\ req.store_mode = "none" => ~Has(calls, "save_snapshot")
    /\ Count(calls, "save_snapshot") <= 1
    /\ (pc = "done" /\ Has(calls, "save_snapshot")) => outcome.kind = "returned"

\* C10: with an audit logger configured, every request that entered the pipeline ends
\* with exactly one log_tool_call: status success when text is returned (safety-gate path or normal path),
\* status failure when the request raises.
C10_AuditExactlyOnce ==
    (auditConfigured /\ pc = "done" /\ outcome # Raised("ValueError")) =>
        /\ Count(calls, "log_tool_call") = 1
        /\ Len(audit) = 1
        /\ outcome.kind = "returned" => audit[1].status = "success"
        /\ outcome.kind = "raised" => audit[1].status = "failure"


EnteredPipeline == pc # "idle" /\ outcome # Raised("ValueError") /\ eff # NoEff

ValidPrivacyInputs == {"None", "", "strict", "standard", "explicit"}

\* C12: a privacy_mode string other than strict, standard or explicit (absent or empty
\* meaning strict) is rejected with a validation error before any work: the request ends
\* with ValueError and no provider read, detection call, generation call, snapshot save or
\* audit call; an absent or empty value is accepted as strict.
C12_BadPrivacyModeRejected ==
    /\ (pc # "idle" /\ req.privacy_mode \notin ValidPrivacyInputs) =>
          /\ pc = "done"
          /\ outcome.kind = "raised" /\ outcome.error = "ValueError"
          /\ calls = <<>>
          /\ DOMAIN bundle.vitals = {} /\ signals = NoSignals
          /\ IsNone(snapshot.id) /\ audit = <<>>
          /\ ~PromptBuilt
    /\ (pc # "idle" /\ req.privacy_mode \in {"None", ""}) =>
          eff.privacy_mode = "strict" /\ outcome.error # "ValueError"
    /\ outcome.error = "ValueError" => req.privacy_mode \notin ValidPrivacyInputs

C12_Witness ==
    /\ pc = "done"
    /\ req.privacy_mode = "full"
    /\ req.store_mode = "encrypted"
    /\ outcome = Raised("ValueError")
    /\ calls = <<>>
    /\ repoConfigured

\* C13: a store_mode string that is neither 'encrypted' nor 'none' is rejected with a
\* validation error before any work begins: no provider read, detection call, generation
\* call or snapshot save happens for that request.
C13_BadStoreModeRejected ==
    (pc # "idle" /\ req.store_mode \notin {"None", "encrypted", "none"}) =>
        /\ pc = "done"
        /\ outcome.kind = "raised" /\ outcome.error = "ValueError"
        /\ calls = <<>>

\* The text a request returns when nothing raises
ExpectedText ==
    IF triggers # <<>>
    THEN [kind |-> "escalation", triggers |-> triggers,
          signals |-> SignalSnapshot(signals.layer_values), disclaimer |-> TRUE]
    ELSE [kind |-> "generated",
          scaffold |-> Val(SelectedScaffold)]
SaveAttempted == Has(calls, "save_snapshot")
SaveFailed == SaveAttempted /\ IsNone(snapshot.id)

\* C14: a failure of save_snapshot never changes the text returned and never makes the
\* request fail, on the safety-gate path and on the normal path: whether the save
\* succeeded or failed the request ends the same way (with the same text when no audit
\* logger is configured, with the audit call's AttributeError when one is), and after a
\* failed save there is no snapshot id.
C14_SaveFailureHarmless ==
    (pc = "done" /\ SaveAttempted) =>
        /\ ~auditConfigured => outcome = Returned(ExpectedText)
        /\ auditConfigured => outcome = Raised("AttributeError")
        /\ SaveFailed => DOMAIN snapshot.saved = {} /\ \A i \in 1..Len(audit) :
                                                          IsNone(audit[i].snapshot_id)

C14_Witness ==
    /\ pc = "done"
    /\ SaveFailed
    /\ ~auditConfigured
    /\ triggers = <<>>
    /\ outcome = Returned(ExpectedText)

\* C15: a failure raised while making the audit call, on the safety-gate path or on the
\* success path, neither changes the text returned nor turns the request into a failure:
\* with an audit logger configured, a request that reached its audit call still returns
\* its text.
C15_AuditFailureHarmless ==
    (auditConfigured /\ pc = "done" /\ (triggers # <<>> \/ ctx.generated)) =>
        outcome = Returned(ExpectedText)

\* ---- scaffold selection ----

GROWTH == "personal_health_signal.growth"
RISK == "personal_health_signal.risk"
NEUTRAL == "personal_health_signal"

Registered(registry, id) == \E i \in 1..Len(registry) : registry[i].id = id
\* The first scaffold registered for the tool, if any
FirstForTool(registry, tool) ==
    LET hits == {i \in 1..Len(registry) : tool \in registry[i].tools}
    IN IF hits = {} THEN None
       ELSE Some(registry[CHOOSE i \in hits : \A j \in hits : i <= j].id)
\* The three health scaffolds are registered, the neutral one first for the tool
HealthRegistry(registry) ==
    /\ Registered(registry, GROWTH)
    /\ Registered(registry, RISK)
    /\ FirstForTool(registry, "personal_health_signal") = Some(NEUTRAL)

\* The detection summary handed to select: the dict, or the empty dict when the context
\* has none or has something that is not a dict
SummaryGiven ==
    LET tc == selection.tool_context
    IN IF "mantic_summary" \in DOMAIN tc /\ tc.mantic_summary.type = "dict"
       THEN tc.mantic_summary.value ELSE EmptyDict
EmergenceGiven ==
    "emergence_window" \in DOMAIN SummaryGiven /\ SummaryGiven.emergence_window
FrictionHighGiven ==
    "friction_level" \in DOMAIN SummaryGiven /\ SummaryGiven.friction_level = "high"
CoherenceLowGiven ==
    /\ "coherence" \in DOMAIN SummaryGiven
    /\ ~IsNone(SummaryGiven.coherence)
    /\ 10 * Val(SummaryGiven.coherence) < 6 * Scale
NoCallerId == ~Truthy(selection.caller_scaffold_id)

\* C16: for personal_health_signal with no caller scaffold id and the three health
\* scaffolds registered (neutral first for the tool), select returns the growth scaffold
\* when the summary's emergence_window is true, whatever the friction; otherwise the
\* risk scaffold when friction_level is "high" or coherence is a number below 0.6;
\* otherwise (coherence 0.6 or null, summary missing or not a dict) the neutral one.
C16_RoutingBySummary ==
    (/\ selection.done
     /\ selection.tool_name = "personal_health_signal"
     /\ NoCallerId
     /\ HealthRegistry(selection.registry))
    => selection.result =
          IF EmergenceGiven THEN Some(GROWTH)
          ELSE IF FrictionHighGiven \/ CoherenceLowGiven THEN Some(RISK)
          ELSE Some(NEUTRAL)

C16_Witness ==
    /\ selection.done
    /\ selection.tool_name = "personal_health_signal"
    /\ NoCallerId
    /\ EmergenceGiven
    /\ FrictionHighGiven
    /\ selection.result = Some(GROWTH)

\* The five rules of selection, each yielding Some(id) or None
RuleCallerId ==
    IF Truthy(selection.caller_scaffold_id)
          /\ Registered(selection.registry, Val(selection.caller_scaffold_id))
    THEN selection.caller_scaffold_id ELSE None
RuleRouting ==
    IF selection.tool_name # "personal_health_signal" THEN None
    ELSE IF EmergenceGiven /\ Registered(selection.registry, GROWTH) THEN Some(GROWTH)
    ELSE IF (FrictionHighGiven \/ CoherenceLowGiven) /\ Registered(selection.registry, RISK)
    THEN Some(RISK)
    ELSE None
RuleToolName == FirstForTool(selection.registry, selection.tool_name)
RuleScoring ==
    IF selection.user_input = {} THEN None
    ELSE _score_scaffolds(selection.registry, selection.user_input)
RuleDefault ==
    IF Registered(selection.registry, DEFAULT_SCAFFOLD_ID) THEN Some(DEFAULT_SCAFFOLD_ID)
    ELSE None
\* The first rule of a sequence that yields a scaffold; None when none does
RECURSIVE FirstYield(_)
FirstYield(rules) ==
    IF rules = <<>> THEN None
    ELSE IF ~IsNone(Head(rules)) THEN Head(rules)
    ELSE FirstYield(Tail(rules))

\* C17 as stated: select returns what the first of the five rules, in the order caller
\* id, routing, tool name, scoring, default, yields, and raises ScaffoldNotFoundError
\* only when none yields.
C17_FixedOrderFirstMatch ==
    selection.done
    => selection.result =
          FirstYield(<<RuleCallerId, RuleRouting, RuleToolName, RuleScoring, RuleDefault>>)

\* C17: the same, except that the routing rule applies only when the caller gave no
\* scaffold id at all: a caller id that is not registered still switches routing off,
\* and selection goes on with the tool-name match.
C17_OrderWithRoutingOnlyWithoutCallerId ==
    selection.done
    => selection.result =
          FirstYield(<<RuleCallerId, IF NoCallerId THEN RuleRouting ELSE None,
                       RuleToolName, RuleScoring, RuleDefault>>)

C17_Witness ==
    /\ selection.done
    /\ selection.caller_scaffold_id = Some("missing")
    /\ selection.tool_name = "personal_health_signal"
    /\ EmergenceGiven
    /\ Registered(selection.registry, GROWTH)
    /\ selection.result = Some(NEUTRAL)

\* ---- profile fallback ----

\* The layer identifiers of signal_core in its layer order, and for each position the
\* position of the health layer whose score is sent there
SignalCoreLayers == <<"micro", "meso", "macro", "meta">>
SentFrom == <<1, 3, 2, 4>>
\* The profiles this request resolved against
ProfilesResolved == IF IsNone(cache) THEN {} ELSE Val(cache)
AlternateCase ==
    /\ ProfilesResolved # {}
    /\ PROFILE_NAME \notin ProfilesResolved
    /\ _SIGNAL_CORE_PROFILE \in ProfilesResolved
\* Both detections answered and the summary in use was built from their results
RemoteSummaryInUse ==
    /\ Count(calls, "detect_emergence") = 1
    /\ mantic.failed \cap {"detect_friction", "detect_emergence"} = {}
    /\ DOMAIN mantic.summary # {}
FactorReturned == mantic.emergence_result.limiting_factor

\* C18: when the remote list is non-empty, lacks the primary profile and has signal_core,
\* every detection call is sent with profile signal_core and the scores in the order
\* (vital, activity, metabolic, preventive), and a returned limiting factor micro, meso,
\* macro or meta becomes the name of the health layer whose score was sent in that
\* position; in every other case the calls carry the primary profile and the scores in
\* their original order, and a returned limiting factor is kept as it is.
C18_AlternateProfileRemap ==
    /\ \A i \in 1..Len(mantic.sent) :
          IF AlternateCase
          THEN /\ mantic.sent[i].profile_name = _SIGNAL_CORE_PROFILE
               /\ mantic.sent[i].layer_values =
                     [k \in 1..4 |-> signals.layer_values[SentFrom[k]]]
          ELSE /\ mantic.sent[i].profile_name = PROFILE_NAME
               /\ mantic.sent[i].layer_values = signals.layer_values
    /\ (RemoteSummaryInUse /\ ~IsNone(FactorReturned))
       => mantic.summary.limiting_factor =
             IF AlternateCase /\ Has(SignalCoreLayers, Val(FactorReturned))
             THEN Some(LAYER_NAMES[SentFrom[IndexOf(SignalCoreLayers, Val(FactorReturned))]])
             ELSE FactorReturned

C18_Witness ==
    /\ AlternateCase
    /\ Len(mantic.sent) = 2
    /\ signals.layer_values[2] # signals.layer_values[3]
    /\ RemoteSummaryInUse
    /\ FactorReturned = Some("meso")
    /\ mantic.summary.limiting_factor = Some("activity_recovery")

\* ---- the profile cache under concurrent requests ----

CallerReturned(i) == callers.proc[i].at = "returned"

\* C19: under every interleaving the cache is written at most once, all requests that
\* got a profile set got the same one, and the cache still holds what each of them got
\* (no later write changed a value already read).
C19_CachePopulatedOnce ==
    DOMAIN callers # {}
    => /\ callers.writes <= 1
       /\ \A i, j \in CallerIds :
             (CallerReturned(i) /\ CallerReturned(j)) => callers.proc[i].got = callers.proc[j].got
       /\ \A i \in CallerIds : CallerReturned(i) => cache = Some(callers.proc[i].got)

\* ---- the detection client's errors ----

ClientRaised(e) == client.outcome.kind = "raised" /\ client.outcome.error = e
IsDetectionTool == client.tool_name \in {"mantic_detect_friction", "mantic_detect_emergence"}

\* C20: a call that fails raises one of the three typed errors and nothing else: a
\* transport exception gives ManticConnectionError; an empty, unusable, non-JSON or
\* non-object payload gives ManticResponseError; an object with status "error" gives
\* ManticDetectionError.
C20_TypedErrorsOnly ==
    (DOMAIN client # {} /\ client.done)
    => /\ client.outcome.kind = "raised" => client.outcome.error \in ManticErrors
       /\ client.transport.class = "transport" => ClientRaised("ManticConnectionError")
       /\ client.transport.class \in {"empty", "unusable", "non_json", "non_object"}
             => ClientRaised("ManticResponseError")
       /\ client.transport.class = "status_error" => ClientRaised("ManticDetectionError")

\* C21: what a detection tool returns as a success has status "ok" and a result object
\* with at least m_score.
C21_SuccessHasMScore ==
    (DOMAIN client # {} /\ client.done /\ IsDetectionTool
       /\ client.outcome.kind = "returned")
    => /\ GetIsText(client.outcome.value, "status", "ok")
       /\ "result" \in DOMAIN client.outcome.value.value
       /\ client.outcome.value.value.result.type = "dict"
       /\ "m_score" \in DOMAIN client.outcome.value.value.result.value

\* ---- the local fallback summary ----

SummaryComputed ==
    /\ DOMAIN call # {}
    /\ call.fn = "_local_mantic_summary_from_signals"
    /\ call.done
    /\ Len(call.layer_values) = 4
Spread == SeqMax(call.layer_values) - SeqMin(call.layer_values)
SpreadCoherence == Max2(0, Min2(Scale, Scale - Spread))
FrictionBySpread ==
    IF 4 * Spread < Scale THEN "low" ELSE IF 2 * Spread < Scale THEN "moderate" ELSE "high"
\* The limiting factor names a layer whose score is the lowest
LimitingIsLowest ==
    \E i \in 1..4 : /\ call.result.limiting_factor = Some(LAYER_NAMES[i])
                    /\ call.layer_values[i] = SeqMin(call.layer_values)

\* C22 as stated: friction by the spread, coherence equal to 1 - spread clamped, the
\* limiting factor the lowest layer, and the window true only if coherence is at least
\* 0.7 and every score is above the threshold.
C22_LocalSummaryAsStated ==
    SummaryComputed
    => /\ call.result.friction_level = FrictionBySpread
       /\ call.result.coherence = Some(SpreadCoherence)
       /\ LimitingIsLowest
       /\ call.result.emergence_window
             => /\ 10 * SpreadCoherence >= 7 * Scale
                /\ \A i \in 1..4 : call.layer_values[i] > _DETECTION_THRESHOLD_FALLBACK

\* C22: friction by the spread; coherence equal to 1 - spread clamped and then rounded
\* to four decimals; the limiting factor the first lowest layer in layer order; the
\* window true exactly when the unrounded coherence is at least 0.7 and every score is
\* at least the threshold (a score equal to it counts).
C22_LocalSummaryRounded ==
    SummaryComputed
    => /\ call.result.friction_level = FrictionBySpread
       /\ call.result.coherence = Some(Round4(SpreadCoherence))
       /\ LimitingIsLowest
       /\ \A i \in 1..4 :
             call.result.limiting_factor = Some(LAYER_NAMES[i])
                => \A j \in 1..(i - 1) : call.layer_values[j] > call.layer_values[i]
       /\ call.result.emergence_window
             <=> /\ 10 * SpreadCoherence >= 7 * Scale
                 /\ \A i \in 1..4 : call.layer_values[i] >= _DETECTION_THRESHOLD_FALLBACK

C22_Witness ==
    /\ SummaryComputed
    /\ call.result.emergence_window
    /\ \E i \in 1..4 : call.layer_values[i] = _DETECTION_THRESHOLD_FALLBACK
    /\ call.result.coherence # Some(SpreadCoherence)

\* ---- guardrail enforcement ----

Enforced ==
    /\ DOMAIN call # {}
    /\ call.fn = "invoke"
    /\ call.at \in {"returned", "enforced_again"}
AllPatterns ==
    UNION { {prohibited_indicators[a].patterns[i] :
                i \in 1..Len(prohibited_indicators[a].patterns)} :
            a \in 1..Len(prohibited_indicators) }
HoldsPattern(text) == \E p \in AllPatterns : Contains(LowerText(text), p)

\* Sentence by sentence: a sentence that holds a pattern becomes the marker, with the
\* terminator that closes it; every other sentence stays as it is
RECURSIVE SentencesRedacted(_, _)
SentencesRedacted(text, i) ==
    IF i > Len(text) THEN <<>>
    ELSE LET e == RunEnd(text, i)
             run == SubSeq(text, i, e)
             closing == IF e < Len(text) THEN <<text[e + 1]>> ELSE <<>>
         IN (IF HoldsPattern(run)
             THEN <<REDACTION_MARKER>>
                  \o (IF closing # <<>> /\ closing[1] = NL THEN closing ELSE <<>>)
             ELSE run \o closing)
            \o SentencesRedacted(text, e + 2)

\* C23: a generated text that holds a listed pattern fails check_guardrails, and the sanitized
\* text is the generated text with exactly each sentence that holds a pattern replaced
\* by the marker and no pattern left; a text that holds none passes, escalation flags
\* or not, and is returned unchanged.
C23_EachOffendingSentenceReplaced ==
    Enforced
    => /\ call.result.guardrail_check.passed <=> ~HoldsPattern(call.provider_content)
       /\ call.result.sanitized = SentencesRedacted(call.provider_content, 1)
       /\ ~HoldsPattern(call.result.sanitized)
       /\ ~HoldsPattern(call.provider_content)
             => call.result.sanitized = call.provider_content

\* The disclaimers the scaffold mandates: stripped, the blank ones dropped
Mandated ==
    { Strip(call.scaffold.disclaimers[i]) : i \in 1..Len(call.scaffold.disclaimers) }
    \ { <<>> }
PresentIn(text, d) == Contains(_norm(text), _norm(d))
\* What enforce_disclaimers added after the sanitized text
AddedFooter ==
    SubSeq(call.result.enforced, Len(call.result.sanitized) + 1, Len(call.result.enforced))
Flagged(d) ==
    \E i \in 1..Len(call.result.disclaimer_flags) :
        call.result.disclaimer_flags[i] = GuardrailFlag("disclaimer_appended", "", d)
Appended(d) ==
    /\ Len(AddedFooter) > 6
    /\ SubSeq(AddedFooter, 1, 6) = <<NL, NL, "---", NL, "Disclaimers:", NL>>
    /\ Contains(AddedFooter, <<"-">> \o d)

\* C24: every mandated disclaimer is present, after whitespace and case normalisation,
\* in the text invoke returns; a disclaimer missing from the text as it stands after
\* redaction is appended in the footer and flagged, one present in it is neither
\* appended nor flagged, and the enforcer changes nothing else of the redacted text.
C24_DisclaimersPresent ==
    Enforced
    => /\ SubSeq(call.result.enforced, 1, Len(call.result.sanitized)) = call.result.sanitized
       /\ SubSeq(call.result.content, 1, Len(call.result.enforced)) = call.result.enforced
       /\ \A d \in Mandated :
            /\ PresentIn(call.result.content, d)
            /\ IF PresentIn(call.result.sanitized, d)
               THEN ~Flagged(d) /\ ~Appended(d)
               ELSE Flagged(d) /\ Appended(d)
       /\ Len(call.result.disclaimer_flags)
            = Cardinality({d \in Mandated : ~PresentIn(call.result.sanitized, d)})

\* Redaction removed a sentence; one disclaimer is in the redacted text and is left
\* alone, another is not and is appended and flagged
C24_Witness ==
    /\ Enforced
    /\ ~call.result.guardrail_check.passed
    /\ call.result.sanitized # call.provider_content
    /\ \E d \in Mandated : PresentIn(call.result.sanitized, d) /\ ~Flagged(d)
    /\ \E d \in Mandated : ~PresentIn(call.result.sanitized, d) /\ Appended(d)
    /\ DOMAIN call.data_ctx # {}

EnforcedAgain ==
    /\ DOMAIN call # {}
    /\ call.fn = "invoke"
    /\ call.at = "enforced_again"
Compliant(text) == ~HoldsPattern(text) /\ \A d \in Mandated : PresentIn(text, d)

\* C25: the enforcer run on the text it produced changes nothing, passes check_guardrails and
\* appends no disclaimer; so does the enforcer run on a generated text that holds no
\* listed pattern and every mandated disclaimer.
C25_EnforcementIdempotent ==
    /\ EnforcedAgain
       => /\ call.again.content = call.result.enforced
          /\ call.again.guardrail_check.passed
          /\ call.again.disclaimer_flags = <<>>
    /\ Enforced /\ Compliant(call.provider_content)
       => /\ call.result.enforced = call.provider_content
          /\ call.result.guardrail_check.passed
          /\ call.result.disclaimer_flags = <<>>

\* ---- the range of the translator's scores ----

Translated ==
    /\ DOMAIN call # {}
    /\ call.fn = "translate_health_to_mantic"
    /\ call.done
\* The blend of the activity sub-signals before the final clamp
ActivityBlend ==
    LET d == call.result.details.activity_recovery
    IN (35 * d.exercise_signal + 35 * d.sleep_signal + 30 * d.recovery_signal) \div 100

\* C26: each of the four scores the translator returns lies in [0,1], whatever the
\* readings (percentages above 100, negative values) and whichever sections or
\* sub-fields are missing.
C26_ScoresInUnitInterval ==
    Translated
    => /\ Len(call.result.layer_values) = 4
       /\ \A i \in 1..4 : /\ call.result.layer_values[i] >= 0
                          /\ call.result.layer_values[i] <= Scale

\* Percentages above 100 carried the activity blend above 1, and the score is 1
C26_Witness ==
    /\ Translated
    /\ ~IsEmptyDict(call.data.activity)
    /\ Get(call.data.activity, "consistency") = Some(250)
    /\ ActivityBlend > Scale
    /\ call.result.layer_values[3] = Scale
    /\ IsEmptyDict(call.data.vitals)

\* Negative readings carried the activity blend below 0, and the score is 0
C26_WitnessNegative ==
    /\ Translated
    /\ ~IsEmptyDict(call.data.activity)
    /\ ActivityBlend < 0
    /\ call.result.layer_values[3] = 0

\* ---- loading the scaffold definitions ----

DirectoryLoaded ==
    /\ DOMAIN call # {}
    /\ call.fn = "load_scaffold_directory"
    /\ call.done
Readable == {i \in 1..Len(call.files) : call.files[i] # UnreadableFile}
SharedId == \E i, j \in Readable : i < j /\ call.files[i].id = call.files[j].id
\* The first definition of the directory under an id
FirstDefinition(scaffold_id) ==
    call.files[CHOOSE i \in Readable :
                  /\ call.files[i].id = scaffold_id
                  /\ \A j \in Readable : call.files[j].id = scaffold_id => i <= j]
IsIn(s, x) == \E i \in 1..Len(s) : s[i] = x
\* Registry and indexes hold, under every id, the first definition and nothing else
FirstDefinitionsOnly ==
    LET reg == call.result.registry
    IN /\ \A i \in 1..Len(reg._scaffolds) :
            reg._scaffolds[i] = FirstDefinition(reg._scaffolds[i].id)
       /\ \A i \in Readable : registry_get(reg, call.files[i].id)
                                = Some(FirstDefinition(call.files[i].id))
       /\ \A t \in {"tool_1", "tool_2"} :
            \A s \in ScaffoldFiles \ {UnreadableFile} :
                IsIn(find_by(reg, reg._by_tool, t), s)
                    <=> /\ s.id \in {call.files[i].id : i \in Readable}
                        /\ s = FirstDefinition(s.id)
                        /\ IsIn(s.tools, t)
       /\ \A g \in {"tag_x", "tag_y"} :
            \A s \in ScaffoldFiles \ {UnreadableFile} :
                IsIn(find_by(reg, reg._by_tag, g), s)
                    <=> /\ s.id \in {call.files[i].id : i \in Readable}
                        /\ s = FirstDefinition(s.id)
                        /\ IsIn(s.tags, g)

\* C27: loading definitions of which two share an id ends with an error, and the
\* registry and its tool and tag indexes hold under that id the definition registered
\* first, never a later one.
C27_DuplicateIdIsLoadError ==
    DirectoryLoaded
    => /\ SharedId => call.result.raised # ""
       /\ FirstDefinitionsOnly

\* ---- the local fallback and the remote results ----

UsedLocalFallback == mantic.profile_used = "unavailable"
ContextBuilt == DOMAIN ctx.full # {}
SnapshotSaved == DOMAIN snapshot.saved # {}

\* C28: a request that used the local fallback summary carries no remote detector
\* result: in its context mantic_raw and the friction and emergence blocks are empty,
\* and in its snapshot the friction and emergence scores are unset; also when
\* detect_friction succeeded and detect_emergence then failed.
C28_FallbackCarriesNoRemoteResult ==
    /\ UsedLocalFallback /\ ContextBuilt
       => /\ DOMAIN ctx.full.mantic_raw.friction = {}
          /\ DOMAIN ctx.full.mantic_raw.emergence = {}
          /\ IsNone(ctx.full.friction.m_score)
          /\ ~ctx.full.friction.detected
          /\ IsNone(ctx.full.friction.layer_coupling)
          /\ IsNone(ctx.full.friction.layer_visibility)
          /\ IsNone(ctx.full.emergence.m_score)
          /\ ~ctx.full.emergence.detected
          /\ IsNone(ctx.full.emergence.window_type)
    /\ UsedLocalFallback /\ SnapshotSaved
       => /\ IsNone(snapshot.saved.friction_m_score)
          /\ ~snapshot.saved.friction_detected
          /\ IsNone(snapshot.saved.emergence_m_score)
          /\ ~snapshot.saved.emergence_detected

\* ---- disclosure in the audit trail ----

ProviderReturned == ctx.generated /\ Has(calls, "llm_invoke")

\* C29: a request in which the generation call to a provider other than the mock was
\* made leaves an audit event, and the event says disclosed; also when the request
\* failed after the provider had returned.
C29_DisclosureAudited ==
    pc = "done" /\ auditConfigured /\ llmProvider # "mock" /\ ProviderReturned
    => /\ audit # <<>>
       /\ \A i \in 1..Len(audit) : audit[i].llm_disclosed

\* ---- the profile cache after a failure of list_profiles ----

ListProfilesFailed == DOMAIN callers # {} /\ callers.failures > 0

\* C30: once list_profiles has failed, the cache holds the empty set from then on, no
\* request that starts later calls list_profiles, and every such request resolves the
\* primary profile, whatever the service answers afterwards.
C30_CacheEmptyAfterFailure ==
    [][ListProfilesFailed
       => /\ cache' = Some({})
          /\ \A i \in CallerIds :
                callers.proc[i].at = "idle"
                   => /\ callers'.proc[i].at # "awaiting"
                      /\ callers'.proc[i].at = "returned"
                            => callers'.proc[i].used = PROFILE_NAME]_vars

====
